---- MODULE Spec2Model ----
(***************************************************************************)
(* Query-time geocoding engine of overture-geocode:                        *)
(*   - registry lookup (findRegistryFile, clients/js stac.ts),             *)
(*   - forward search (/search of the D1 worker and of the R2-shard        *)
(*     worker),                                                            *)
(*   - reverse geocoding (/reverse of the D1 worker and the R2 stub).      *)
(*   - deduplicateResults on its own,                                      *)
(*   - the STAC catalog cache (getStacCatalog, clearCatalogCache,          *)
(*     getLatestRelease),                                                  *)
(*   - the client's fetchWithRetry,                                        *)
(*   - request dispatch of the workers (fetch, checkRateLimit, /lookup).   *)
(* Each component has its own specification over the shared variables.     *)
(***************************************************************************)
EXTENDS Integers, Sequences, FiniteSets, TLC

VARIABLES
    \* ---- registry lookup (findRegistryFile) ----
    manifest,     \* the [filename, max_id] tuples handed to findRegistryFile
    gersId,       \* the identifier the caller holds
    callArg,      \* the gersId argument of the call in progress
    callForm,     \* which form of gersId the call was given: "given" or "upper"
    id,           \* local: gersId.toLowerCase()
    left,         \* local
    right,        \* local
    rpc,          \* position in findRegistryFile: "idle", "loop", "check"
    steps,        \* loop iterations of the call in progress
    returned,     \* callForm -> value returned by the finished call, or Pending
    \* ---- reverse geocoding (/reverse) ----
    revDb,        \* rows of the divisions_reverse table
    revBound,     \* whether env.DB_DIVISIONS_REVERSE is bound
    revReq,       \* the /reverse request being handled, or the last one handled
    revPc,        \* "idle", or "querying" while the D1 query is awaited
    revQueries,   \* queries issued to the reverse database for revReq
    revOutcome,   \* what the query of revReq did: "none", "rows", "threw"
    revCandidates,\* the rows the query returned
    revResp,      \* the response to revReq
    \* ---- forward search (/search) ----
    headRows,     \* rows of the HEAD shard (R2 worker) / of the divisions table (D1 worker)
    countryRows,  \* rows of the country shards, each in the shard of its country
    sqlPromise,   \* the module-level sqlPromise: "null", "pending", "fulfilled", "rejected"
    srchReq,      \* the /search request being handled, or the last one handled
    srchFts,      \* local ftsQuery
    srchPc,       \* "idle", or the await the handler is suspended at
    srchLog,      \* storage accesses made for srchReq
    srchOpen,     \* shard database handles opened for srchReq and not closed
    srchHead,     \* rows searchShard returned for the HEAD shard
    srchAll,      \* local allResults
    srchResp,     \* the response to srchReq
    \* ---- deduplicateResults applied on its own ----
    dedupInput,   \* the results argument
    dedupOutput,  \* the returned list, or Pending before the call returns
    dedupRuns,    \* how many times in a row the function was applied to its own output
    \* ---- STAC catalog (getStacCatalog, clearCatalogCache, getLatestRelease) ----
    catServer,    \* the links of the catalog document the server holds
    catalogCache, \* the module-level catalogCache: CatNull or the cached catalog object
    catCalls,     \* call -> the state of that call of getStacCatalog / getLatestRelease
    catObjects,   \* catalog objects created so far by response.json()
    catDone,      \* calls of getStacCatalog that returned since the last clearCatalogCache
    catCleared,   \* clearCatalogCache was called and no call was made since
    \* ---- client: OvertureGeocoder.fetchWithRetry ----
    cliRetries,   \* this.retries
    cliAttempt,   \* the attempt argument of the fetchWithRetry call in progress
    cliPc,        \* "idle", "fetch" (doFetch awaited), "delay" (delay awaited), "done"
    cliOutcomes,  \* how each doFetch of the request settled, in order
    cliResult,    \* what the outermost fetchWithRetry settled with
    \* ---- the workers' fetch handlers (request dispatch) ----
    wrkFeatures,  \* gers_ids of the rows of the features table (DB_MA of the first worker)
    wrkReq,       \* the request being handled, or the last one handled
    wrkPc,        \* "idle", "rateLimit" (limit() awaited), "query" (a handler's query awaited)
    wrkRaised,    \* where errors were raised while wrkReq was handled
    wrkResp,      \* the response to wrkReq, or UncaughtException
    \* ---- getSql of the R2-shard worker, with overlapping callers ----
    sqlCallers,   \* caller -> [pc, promise]: the call's position and the promise it was given
    sqlPc,        \* position of the initialising function: "none", "fetch", "buffer", "init", "done"
    sqlFetches,   \* fetches of the WASM binary issued
    sqlInits,     \* calls of initSqlJs made
    sqlCreated    \* promises the initialising function was started for

regVars == <<manifest, gersId, callArg, callForm, id, left, right, rpc, steps, returned>>
revVars == <<revDb, revBound, revReq, revPc, revQueries, revOutcome, revCandidates, revResp>>

srchVars == <<headRows, countryRows, sqlPromise, srchReq, srchFts, srchPc, srchLog, srchOpen, srchHead, srchAll, srchResp>>

dedupVars == <<dedupInput, dedupOutput, dedupRuns>>

catVars == <<catServer, catalogCache, catCalls, catObjects, catDone, catCleared>>

cliVars == <<cliRetries, cliAttempt, cliPc, cliOutcomes, cliResult>>

wrkVars == <<wrkFeatures, wrkReq, wrkPc, wrkRaised, wrkResp>>

sqlVars == <<sqlCallers, sqlPc, sqlFetches, sqlInits, sqlCreated>>

\* the /search variables other than sqlPromise
srchRest == <<headRows, countryRows, srchReq, srchFts, srchPc, srchLog, srchOpen, srchHead, srchAll, srchResp>>

vars == <<regVars, revVars, srchVars, dedupVars, catVars, cliVars, wrkVars, sqlVars>>

Null == "null"
Pending == "pending"

(***************************************************************************)
(* Strings are sequences of UTF-16 code units; JavaScript's < and >= on    *)
(* strings compare them code unit by code unit, a proper prefix first.     *)
(***************************************************************************)
RECURSIVE StrLess(_, _)
StrLess(a, b) ==
    IF b = <<>> THEN FALSE
    ELSE IF a = <<>> THEN TRUE
    ELSE IF Head(a) < Head(b) THEN TRUE
    ELSE IF Head(a) > Head(b) THEN FALSE
    ELSE StrLess(Tail(a), Tail(b))

StrGeq(a, b) == ~StrLess(a, b)

\* String.prototype.toLowerCase / toUpperCase on the ASCII range
LowerUnit(c) == IF c >= 65 /\ c <= 90 THEN c + 32 ELSE c
UpperUnit(c) == IF c >= 97 /\ c <= 122 THEN c - 32 ELSE c
ToLowerCase(s) == [i \in 1..Len(s) |-> LowerUnit(s[i])]
ToUpperCase(s) == [i \in 1..Len(s) |-> UpperUnit(s[i])]

(***************************************************************************)
(* Inputs of the registry lookup.                                          *)
(***************************************************************************)
MaxIdLen == 2
MaxManifestLen == 3

\* code units of the identifiers tried: "B", "a", "b"
IdUnits == {66, 97, 98}
\* max_id bounds of the manifests tried: "a", "ab", "b", "bb"
BoundSet == {<<97>>, <<97, 98>>, <<98>>, <<98, 98>>}

FileNames == <<"000.parquet", "001.parquet", "002.parquet", "003.parquet", "004.parquet">>

SeqsUpTo(S, n) == UNION {[1..k -> S] : k \in 0..n}

Ids == SeqsUpTo(IdUnits, MaxIdLen)

Manifests ==
    {[i \in 1..Len(bs) |-> <<FileNames[i], bs[i]>>] : bs \in SeqsUpTo(BoundSet, MaxManifestLen)}

\* manifest sorted ascending by max_id
SortedByBound(m) ==
    \A i \in 1..Len(m), j \in 1..Len(m) : i < j => StrGeq(m[j][2], m[i][2])

(***************************************************************************)
(* findRegistryFile, one action per step of its code.                      *)
(***************************************************************************)
RegFrame == UNCHANGED <<revVars, srchVars, dedupVars, catVars, cliVars, wrkVars, sqlVars>>

NormalizeIdRaw(s) == s
NormalizeId(s) == ToLowerCase(s)

CoversStrict(bound, target) == StrLess(target, bound)
Covers(bound, target) == StrGeq(bound, target)

MidFloor(l, r) == (l + r) \div 2

\* if (manifest.length === 0) return null; const id = ...; let left = 0; let right = length - 1
\* (indices are 1-based here: left = 1, right = Len(manifest))
RegCall(form) ==
    /\ rpc = "idle"
    /\ returned[form] = Pending
    /\ callForm' = form
    /\ callArg' = IF form = "upper" THEN ToUpperCase(gersId) ELSE gersId
    /\ steps' = 0
    /\ IF Len(manifest) = 0
       THEN /\ returned' = [returned EXCEPT ![form] = Null]
            /\ UNCHANGED <<id, left, right, rpc>>
       ELSE /\ id' = NormalizeId(callArg')
            /\ left' = 1
            /\ right' = Len(manifest)
            /\ rpc' = "loop"
            /\ UNCHANGED returned
    /\ UNCHANGED <<manifest, gersId>>
    /\ RegFrame

\* while (left < right) { mid = floor((left + right) / 2); if (manifest[mid][1] < id) left = mid + 1; else right = mid; }
RegLoopStep ==
    /\ rpc = "loop"
    /\ left < right
    /\ LET mid == MidFloor(left, right) IN
       IF StrLess(manifest[mid][2], id)
       THEN /\ left' = mid + 1
            /\ UNCHANGED right
       ELSE /\ right' = mid
            /\ UNCHANGED left
    /\ steps' = steps + 1
    /\ UNCHANGED <<manifest, gersId, callArg, callForm, id, rpc, returned>>
    /\ RegFrame

\* loop exit
RegLoopExit ==
    /\ rpc = "loop"
    /\ ~(left < right)
    /\ rpc' = "check"
    /\ UNCHANGED <<manifest, gersId, callArg, callForm, id, left, right, steps, returned>>
    /\ RegFrame

\* return manifest[left]?.[1] >= id ? manifest[left][0] : null;
RegReturn ==
    /\ rpc = "check"
    /\ returned' = [returned EXCEPT ![callForm] =
          IF left \in 1..Len(manifest) /\ Covers(manifest[left][2], id)
          THEN manifest[left][1] ELSE Null]
    /\ rpc' = "idle"
    /\ UNCHANGED <<manifest, gersId, callArg, callForm, id, left, right, steps>>
    /\ RegFrame

(***************************************************************************)
(* HTTP responses (jsonResponse).  A 200 body is a list of results or a    *)
(* GeoJSON FeatureCollection built from the same results; an error body is *)
(* {error: message}.                                                       *)
(***************************************************************************)
NoResponse == [status |-> 0, kind |-> "none", error |-> "", results |-> <<>>]
JsonError(msg, status) == [status |-> status, kind |-> "error", error |-> msg, results |-> <<>>]
JsonList(results) == [status |-> 200, kind |-> "list", error |-> "", results |-> results]
JsonFeatures(results) == [status |-> 200, kind |-> "geojson", error |-> "", results |-> results]

(***************************************************************************)
(* A query-string parameter: absent, text without a leading number, a      *)
(* number, or a number followed by other characters.  Coordinates are in   *)
(* whole degrees.                                                          *)
(***************************************************************************)
ParamMissing == [kind |-> "missing", num |-> 0]
ParamText == [kind |-> "text", num |-> 0]
ParamNum(n) == [kind |-> "num", num |-> n]
ParamNumJunk(n) == [kind |-> "numjunk", num |-> n]

\* parseFloat(url.searchParams.get(name) || ""): NaN unless the text starts with a number
ParseFloat(p) ==
    IF p.kind \in {"num", "numjunk"}
    THEN [nan |-> FALSE, val |-> p.num]
    ELSE [nan |-> TRUE, val |-> 0]

LatParams ==
    {ParamMissing, ParamText, ParamNumJunk(2)} \cup {ParamNum(n) : n \in {-91, -90, 0, 91}}
LonParams ==
    {ParamMissing, ParamText} \cup {ParamNum(n) : n \in {-181, 0, 180, 181}}
Formats == {"jsonv2", "geojson"}

(***************************************************************************)
(* The divisions_reverse table.  area is the bbox area in square degrees   *)
(* as the export computes it.  The centroid columns only feed distance_km, *)
(* which no decision of the handler reads, and are left out.               *)
(***************************************************************************)
BboxArea(xmin, ymin, xmax, ymax) == (xmax - xmin) * (ymax - ymin)

ReverseRow(gid, subtype, xmin, ymin, xmax, ymax) ==
    [gers_id |-> gid, subtype |-> subtype, primary_name |-> gid,
     bbox_xmin |-> xmin, bbox_ymin |-> ymin, bbox_xmax |-> xmax, bbox_ymax |-> ymax,
     area |-> BboxArea(xmin, ymin, xmax, ymax)]

RevUniverse ==
    { ReverseRow("n1", "neighborhood", -1, -1, 1, 1),
      ReverseRow("n2", "neighborhood", -2, -2, 2, 2),
      ReverseRow("n3", "neighborhood", -2, -1, 0, 1),
      ReverseRow("l1", "locality", -3, -2, 3, 2),
      ReverseRow("c1", "county", -4, -1, 4, 1),
      ReverseRow("m1", "microhood", 0, 0, 1, 1),
      ReverseRow("d1", "dependency", -180, -90, 180, 90) }

\* a table with more rows around the origin than the query returns:
\* localities "1", "2", ... of growing area
LargeTableSize == 52
LargeTable == {ReverseRow(ToString(n), "locality", 0 - n, -1, n, 1) : n \in 1..LargeTableSize}

\* WHERE bbox_xmin <= ? AND bbox_xmax >= ? AND bbox_ymin <= ? AND bbox_ymax >= ?
\* bound as (lon, lon, lat, lat)
BboxContainsSwapped(row, lat, lon) ==
    /\ row.bbox_xmin <= lat /\ row.bbox_xmax >= lat
    /\ row.bbox_ymin <= lon /\ row.bbox_ymax >= lon
BboxContains(row, lat, lon) ==
    /\ row.bbox_xmin <= lon /\ row.bbox_xmax >= lon
    /\ row.bbox_ymin <= lat /\ row.bbox_ymax >= lat

\* ORDER BY area ASC: every order of the rows that is ascending by area
\* (rows of equal area come in whichever order the engine produces)
RECURSIVE OrdersByArea(_)
OrdersByArea(rows) ==
    IF rows = {} THEN {<<>>}
    ELSE LET smallest == {r \in rows : \A q \in rows : r.area <= q.area} IN
         UNION {{<<r>> \o rest : rest \in OrdersByArea(rows \ {r})} : r \in smallest}

Take(s, n) == SubSeq(s, 1, IF Len(s) < n THEN Len(s) ELSE n)

CandidateLimit == 50

\* the rows the SELECT of handleReverse can return for a point: the rows whose
\* bbox contains it, ascending by area, LIMIT 50
QueryReverseDb(db, lat, lon) ==
    {Take(o, CandidateLimit) : o \in OrdersByArea({r \in db : BboxContains(r, lat, lon)})}

(***************************************************************************)
(* buildHierarchyForDivision                                               *)
(***************************************************************************)
PriorityUnknownLast(subtype) ==
    CASE subtype = "neighborhood" -> 1
      [] subtype = "macrohood" -> 2
      [] subtype = "locality" -> 3
      [] subtype = "localadmin" -> 4
      [] subtype = "county" -> 5
      [] subtype = "region" -> 6
      [] subtype = "country" -> 7
      [] OTHER -> 8
\* TYPE_PRIORITY[subtype] || 0
Priority(subtype) ==
    CASE subtype = "neighborhood" -> 1
      [] subtype = "macrohood" -> 2
      [] subtype = "locality" -> 3
      [] subtype = "localadmin" -> 4
      [] subtype = "county" -> 5
      [] subtype = "region" -> 6
      [] subtype = "country" -> 7
      [] OTHER -> 0

\* the comparator handed to sort
ComparePriority(a, b) == Priority(a.subtype) - Priority(b.subtype)

\* Array.prototype.sort is stable: an element goes after the elements that
\* do not compare greater than it
RECURSIVE InsertByPriority(_, _)
InsertByPriority(sorted, e) ==
    IF sorted = <<>> THEN <<e>>
    ELSE IF ComparePriority(Head(sorted), e) <= 0
         THEN <<Head(sorted)>> \o InsertByPriority(Tail(sorted), e)
         ELSE <<e>> \o sorted

RECURSIVE SortByPriority(_)
SortByPriority(s) ==
    IF s = <<>> THEN <<>>
    ELSE InsertByPriority(SortByPriority(SubSeq(s, 1, Len(s) - 1)), s[Len(s)])

\* filter with the seenSubtypes set: the first row of each subtype is kept
RECURSIVE DedupFrom(_, _)
DedupFrom(s, seen) ==
    IF s = <<>> THEN <<>>
    ELSE IF Head(s).subtype \in seen
         THEN DedupFrom(Tail(s), seen)
         ELSE <<Head(s)>> \o DedupFrom(Tail(s), seen \cup {Head(s).subtype})

DedupBySubtypeNone(s) == s
DedupBySubtype(s) == DedupFrom(s, {})

HierarchyEntry(div) == [gers_id |-> div.gers_id, subtype |-> div.subtype, name |-> div.primary_name]

BuildHierarchyForDivision(currentDiv, allCandidates) ==
    LET containing == SelectSeq(allCandidates, LAMBDA div : div.area >= currentDiv.area)
        deduped == DedupBySubtype(containing)
        sorted == SortByPriority(deduped)
    IN  [i \in 1..Len(sorted) |-> HierarchyEntry(sorted[i])]

(***************************************************************************)
(* handleReverse of the D1 worker                                          *)
(***************************************************************************)
LatOutOfRangeAsLon(lat) == lat < -180 \/ lat > 180
LatOutOfRange(lat) == lat < -90 \/ lat > 90
LonOutOfRange(lon) == lon < -180 \/ lon > 180

ReverseResult(div, candidates) ==
    [gers_id |-> div.gers_id, primary_name |-> div.primary_name, subtype |-> div.subtype,
     boundingbox |-> <<div.bbox_ymin, div.bbox_ymax, div.bbox_xmin, div.bbox_xmax>>,
     confidence |-> "bbox",
     hierarchy |-> BuildHierarchyForDivision(div, candidates)]

\* the responses of the statements before the try block; NoResponse when the
\* handler goes on to query the database
ReverseEarlyResponse(lat, lon, bound) ==
    IF lat.nan \/ lon.nan THEN JsonError("lat and lon parameters required", 400)
    ELSE IF LatOutOfRange(lat.val) \/ LonOutOfRange(lon.val)
         THEN JsonError("Invalid coordinates", 400)
    ELSE IF ~bound THEN JsonError("Reverse geocoding not available", 503)
    ELSE NoResponse

CandidatesReversedInPlace(currentDiv, allCandidates) ==
    [i \in 1..Len(allCandidates) |-> allCandidates[Len(allCandidates) + 1 - i]]
\* the candidates array after buildHierarchyForDivision has returned: filter
\* makes new arrays and sort works on the second of them
CandidatesAfter(currentDiv, allCandidates) == allCandidates

\* candidates.map(...): the results for the elements from index i on, each
\* built from the array as the calls before it left it
RECURSIVE MapCandidates(_, _)
MapCandidates(candidates, i) ==
    IF i > Len(candidates) THEN <<>>
    ELSE <<ReverseResult(candidates[i], candidates)>>
         \o MapCandidates(CandidatesAfter(candidates[i], candidates), i + 1)

\* the response of the try block once the query has returned its rows
ReverseRowsResponse(candidates, format) ==
    IF Len(candidates) = 0 THEN JsonList(<<>>)
    ELSE LET results == MapCandidates(candidates, 1)
         IN  IF format = "geojson" THEN JsonFeatures(results) ELSE JsonList(results)

\* the response of the catch block
ReverseCatchResponseEmpty == JsonList(<<>>)
ReverseCatchResponse == JsonError("Internal error", 500)

RevFrame == UNCHANGED <<regVars, srchVars, dedupVars, catVars, cliVars, wrkVars, sqlVars>>

NoRequest == [worker |-> "none", lat |-> ParamMissing, lon |-> ParamMissing, format |-> "jsonv2"]

\* handleReverse up to its await: validation, binding check, query issued
RevHandleD1(latP, lonP, format) ==
    /\ revPc = "idle"
    /\ revReq = NoRequest
    /\ revReq' = [worker |-> "d1", lat |-> latP, lon |-> lonP, format |-> format]
    /\ revOutcome' = "none"
    /\ revCandidates' = <<>>
    /\ LET early == ReverseEarlyResponse(ParseFloat(latP), ParseFloat(lonP), revBound) IN
       IF early # NoResponse
       THEN /\ revResp' = early
            /\ revQueries' = 0
            /\ UNCHANGED revPc
       ELSE /\ revResp' = NoResponse
            /\ revQueries' = 1
            /\ revPc' = "querying"
    /\ UNCHANGED <<revDb, revBound>>
    /\ RevFrame

\* the awaited query resolves with its rows
RevQueryRows ==
    /\ revPc = "querying"
    /\ \E candidates \in QueryReverseDb(revDb, ParseFloat(revReq.lat).val, ParseFloat(revReq.lon).val) :
          /\ revCandidates' = candidates
          /\ revResp' = ReverseRowsResponse(candidates, revReq.format)
    /\ revOutcome' = "rows"
    /\ revPc' = "idle"
    /\ UNCHANGED <<revDb, revBound, revReq, revQueries>>
    /\ RevFrame

\* the awaited query rejects (database unreachable, table missing, ...)
RevQueryThrows ==
    /\ revPc = "querying"
    /\ revResp' = ReverseCatchResponse
    /\ revOutcome' = "threw"
    /\ revPc' = "idle"
    /\ UNCHANGED <<revDb, revBound, revReq, revQueries, revCandidates>>
    /\ RevFrame

\* the response has been returned: the handler's locals are gone
RevDone ==
    /\ revPc = "idle"
    /\ revReq # NoRequest
    /\ revReq' = NoRequest
    /\ revQueries' = 0
    /\ revOutcome' = "none"
    /\ revCandidates' = <<>>
    /\ revResp' = NoResponse
    /\ UNCHANGED <<revDb, revBound, revPc>>
    /\ RevFrame

(***************************************************************************)
(* handleReverse of the R2-shard worker (a stub: validation, then 501)     *)
(***************************************************************************)
ReverseStubResponse(lat, lon) ==
    IF lat.nan \/ LatOutOfRange(lat.val) THEN JsonError("lat must be between -90 and 90", 400)
    ELSE IF lon.nan \/ LonOutOfRange(lon.val) THEN JsonError("lon must be between -180 and 180", 400)
    ELSE JsonError("Reverse geocoding not yet implemented for R2 shards", 501)

RevHandleR2(latP, lonP) ==
    /\ revPc = "idle"
    /\ revReq = NoRequest
    /\ revReq' = [worker |-> "r2", lat |-> latP, lon |-> lonP, format |-> "jsonv2"]
    /\ revResp' = ReverseStubResponse(ParseFloat(latP), ParseFloat(lonP))
    /\ revQueries' = 0
    /\ revOutcome' = "none"
    /\ revCandidates' = <<>>
    /\ UNCHANGED <<revDb, revBound, revPc>>
    /\ RevFrame

(***************************************************************************)
(* Forward search: query normalisation (prepareFtsQuery, the same code in  *)
(* both workers).  Query text is a sequence of code units.                 *)
(***************************************************************************)
\* \s of the regular expressions and the white space trim() strips (ASCII range)
IsSpace(c) == c \in {9, 10, 11, 12, 13, 32}
\* \p{L}, \p{N} and the hyphen (ASCII range)
IsTokenUnit(c) ==
    \/ c >= 48 /\ c <= 57
    \/ c >= 65 /\ c <= 90
    \/ c >= 97 /\ c <= 122
    \/ c = 45

\* .replace(/[^\p{L}\p{N}\s-]/gu, " ")
ReplacePunct(s) == [i \in 1..Len(s) |-> IF IsTokenUnit(s[i]) \/ IsSpace(s[i]) THEN s[i] ELSE 32]

\* .replace(/\s+/g, " "), for the units lo..hi of s: a white-space unit that
\* follows a white-space unit is dropped, any other becomes one space
RECURSIVE CollapseRange(_, _, _)
CollapseRange(s, lo, hi) ==
    IF lo > hi THEN <<>>
    ELSE IF lo = hi
         THEN IF ~IsSpace(s[lo]) THEN <<s[lo]>>
              ELSE IF lo > 1 /\ IsSpace(s[lo - 1]) THEN <<>>
              ELSE <<32>>
    ELSE CollapseRange(s, lo, (lo + hi) \div 2) \o CollapseRange(s, (lo + hi) \div 2 + 1, hi)
CollapseWhitespace(s) == CollapseRange(s, 1, Len(s))

\* String.prototype.trim
Trim(s) ==
    LET keep == {i \in 1..Len(s) : ~IsSpace(s[i])} IN
    IF keep = {} THEN <<>>
    ELSE SubSeq(s, CHOOSE i \in keep : \A j \in keep : i <= j,
                   CHOOSE i \in keep : \A j \in keep : i >= j)

\* .split(" "), for the units lo..hi of s: the pieces between the spaces
\* (the piece that ends one half continues in the piece that starts the next)
JoinPieces(l, r) ==
    SubSeq(l, 1, Len(l) - 1) \o << l[Len(l)] \o r[1] >> \o SubSeq(r, 2, Len(r))

RECURSIVE SplitRange(_, _, _)
SplitRange(s, lo, hi) ==
    IF lo > hi THEN << <<>> >>
    ELSE IF lo = hi
         THEN IF s[lo] = 32 THEN << <<>>, <<>> >> ELSE << <<s[lo]>> >>
    ELSE JoinPieces(SplitRange(s, lo, (lo + hi) \div 2), SplitRange(s, (lo + hi) \div 2 + 1, hi))
SplitOnSpace(s) == SplitRange(s, 1, Len(s))

Tokens(query) ==
    SelectSeq(SplitOnSpace(Trim(CollapseWhitespace(ReplacePunct(ToLowerCase(query))))),
              LAMBDA t : Len(t) > 0)

PrepareFtsQueryAllPrefix(query, autocomplete) ==
    LET tokens == Tokens(query) IN
    [i \in 1..Len(tokens) |-> [text |-> tokens[i], prefix |-> autocomplete]]

\* the FTS5 query: one quoted term per token, the last one with the prefix
\* wildcard when autocomplete is on; the empty sequence stands for ""
PrepareFtsQuery(query, autocomplete) ==
    LET tokens == Tokens(query) IN
    [i \in 1..Len(tokens) |-> [text |-> tokens[i], prefix |-> autocomplete /\ i = Len(tokens)]]

\* `"${t}"*` or `"${t}"`
QuoteTerm(term) ==
    <<34>> \o term.text \o <<34>> \o (IF term.prefix THEN <<42>> ELSE <<>>)

\* .join(" "): the string prepareFtsQuery returns for the terms
RECURSIVE FtsQueryText(_)
FtsQueryText(terms) ==
    IF terms = <<>> THEN <<>>
    ELSE IF Len(terms) = 1 THEN QuoteTerm(terms[1])
    ELSE QuoteTerm(Head(terms)) \o <<32>> \o FtsQueryText(Tail(terms))

(***************************************************************************)
(* Rows of the divisions table of a shard.  boosted_score is the value the *)
(* SELECT computes (bm25 minus the population boost), in whole units;      *)
(* tokens are the words of search_text.                                    *)
(***************************************************************************)
DivisionRow(gid, country, score, tokens) ==
    [gers_id |-> gid, primary_name |-> gid, country |-> country,
     boosted_score |-> score, tokens |-> tokens]

\* the words "a" and "aa"
WordA == <<97>>
WordAA == <<97, 97>>

HeadUniverse ==
    { DivisionRow("x", "US", -40, {WordA}),
      DivisionRow("y", "FR", -30, {WordA, WordAA}),
      DivisionRow("z", "US", -60, {WordA}),
      DivisionRow("v", "US", -55, {WordA}) }

CountryUniverse ==
    { DivisionRow("x", "US", -45, {WordA}),
      DivisionRow("w", "US", -45, {WordA, WordAA}),
      DivisionRow("y", "FR", -30, {WordA, WordAA}) }

IsPrefix(a, b) == Len(a) <= Len(b) /\ SubSeq(b, 1, Len(a)) = a

\* WHERE divisions_fts MATCH ?: every term occurs in the row's text
MatchesFts(row, fts) ==
    \A i \in 1..Len(fts) :
        IF fts[i].prefix
        THEN \E t \in row.tokens : IsPrefix(fts[i].text, t)
        ELSE fts[i].text \in row.tokens

\* the orders of a result set (no ORDER BY)
RECURSIVE OrdersUnordered(_)
OrdersUnordered(rows) ==
    IF rows = {} THEN {<<>>}
    ELSE UNION {{<<r>> \o rest : rest \in OrdersUnordered(rows \ {r})} : r \in rows}

\* ORDER BY boosted_score: every order ascending by boosted_score
RECURSIVE OrdersByScore(_)
OrdersByScore(rows) ==
    IF rows = {} THEN {<<>>}
    ELSE LET best == {r \in rows : \A q \in rows : r.boosted_score <= q.boosted_score} IN
         UNION {{<<r>> \o rest : rest \in OrdersByScore(rows \ {r})} : r \in best}

\* the row lists the SELECT of searchShard / searchDivisions can return
SearchRows(rows, fts, limit) ==
    {Take(o, limit) : o \in OrdersByScore({r \in rows : MatchesFts(r, fts)})}

\* Math.max(0, Math.min(1, -row.boosted_score / 50)), in fiftieths
Importance(score) ==
    LET v == 0 - score IN
    IF v < 0 THEN 0 ELSE IF v > 50 THEN 50 ELSE v

GeocoderResult(row) ==
    [gers_id |-> row.gers_id, name |-> row.primary_name,
     importance |-> Importance(row.boosted_score), country |-> row.country]

\* deduplicateResults: filter with the seen set, the first result of each gers_id is kept
RECURSIVE DedupResultsFrom(_, _)
DedupResultsFrom(s, seen) ==
    IF s = <<>> THEN <<>>
    ELSE IF Head(s).gers_id \in seen
         THEN DedupResultsFrom(Tail(s), seen)
         ELSE <<Head(s)>> \o DedupResultsFrom(Tail(s), seen \cup {Head(s).gers_id})

DeduplicateResultsNone(results) == results
RECURSIVE ReverseSeq(_)
ReverseSeq(s) == IF s = <<>> THEN <<>> ELSE ReverseSeq(Tail(s)) \o <<Head(s)>>
DeduplicateResultsReversed(results) == ReverseSeq(DedupResultsFrom(results, {}))
DeduplicateResults(results) == DedupResultsFrom(results, {})

\* .sort((a, b) => b.importance - a.importance), stable
RECURSIVE InsertByImportance(_, _)
InsertByImportance(sorted, e) ==
    IF sorted = <<>> THEN <<e>>
    ELSE IF Head(sorted).importance - e.importance >= 0
         THEN <<Head(sorted)>> \o InsertByImportance(Tail(sorted), e)
         ELSE <<e>> \o sorted

RECURSIVE SortByImportance(_)
SortByImportance(s) ==
    IF s = <<>> THEN <<>>
    ELSE InsertByImportance(SortByImportance(SubSeq(s, 1, Len(s) - 1)), s[Len(s)])

\* the fixed addition 0.2, in fiftieths
BiasBoost == 10

NoCountry == ""

ApplyLocationBiasEveryone(results, biasCountry) ==
    IF biasCountry = NoCountry THEN results
    ELSE SortByImportance(
           [i \in 1..Len(results) |-> [results[i] EXCEPT !.importance = @ + BiasBoost]])

\* applyLocationBias
ApplyLocationBias(results, biasCountry) ==
    IF biasCountry = NoCountry THEN results
    ELSE SortByImportance(
           [i \in 1..Len(results) |->
               [results[i] EXCEPT !.importance =
                   IF results[i].country = biasCountry THEN @ + BiasBoost ELSE @]])

\* Math.min(Math.max(1, parseInt(param || "10") || 10), 40)
MaxLimit == 40
DefaultLimit == 10
ParseLimit(p) ==
    LET parsed == IF p.kind \in {"num", "numjunk"} /\ p.num # 0 THEN p.num ELSE DefaultLimit
        atLeast1 == IF parsed < 1 THEN 1 ELSE parsed
    IN  IF atLeast1 > MaxLimit THEN MaxLimit ELSE atLeast1

\* the merge with the truncation moved before the sort
MergeResultsTruncateFirst(allResults, biasCountry, limit) ==
    LET converted == [i \in 1..Len(allResults) |-> GeocoderResult(allResults[i])]
        deduped == DeduplicateResults(converted)
    IN  SortByImportance(ApplyLocationBias(Take(deduped, limit), biasCountry))

\* convert, deduplicate, bias, sort, truncate (handleSearch of the R2 worker)
MergeResults(allResults, biasCountry, limit) ==
    LET converted == [i \in 1..Len(allResults) |-> GeocoderResult(allResults[i])]
        deduped == DeduplicateResults(converted)
        biased == ApplyLocationBias(deduped, biasCountry)
        sorted == SortByImportance(biased)
    IN  Take(sorted, limit)

(***************************************************************************)
(* /search requests                                                        *)
(***************************************************************************)
MaxQueryLength == 200

JsonResults(results) == [status |-> 200, kind |-> "results", error |-> "", results |-> results]

SearchRequest(worker, q, limitP, autocomplete, format, cfCountry, bound) ==
    [worker |-> worker, q |-> q, limit |-> limitP, autocomplete |-> autocomplete,
     format |-> format, cfCountry |-> cfCountry, bound |-> bound]

NoSearchRequest == SearchRequest("none", <<>>, ParamMissing, TRUE, "jsonv2", NoCountry, FALSE)

SrchFrame == UNCHANGED <<regVars, revVars, dedupVars, catVars, cliVars, wrkVars, sqlVars>>

(***************************************************************************)
(* handleSearch and searchDivisions of the D1 worker                       *)
(***************************************************************************)
FormatD1(results, format) ==
    IF format = "geojson" THEN JsonFeatures(results) ELSE JsonList(results)

\* what handleSearch answers without reaching the database query; NoResponse
\* when searchDivisions goes on to query
SearchEarlyResponseD1(q, autocomplete, format, bound) ==
    IF Trim(q) = <<>> THEN JsonList(<<>>)
    ELSE IF ~bound THEN FormatD1(<<>>, format)
    ELSE IF PrepareFtsQuery(q, autocomplete) = <<>> THEN FormatD1(<<>>, format)
    ELSE NoResponse

SrchHandleD1(q, limitP, autocomplete, format, bound) ==
    /\ srchPc = "idle"
    /\ srchReq = NoSearchRequest
    /\ srchReq' = SearchRequest("d1", q, limitP, autocomplete, format, NoCountry, bound)
    /\ srchFts' = IF bound /\ Trim(q) # <<>> THEN PrepareFtsQuery(q, autocomplete) ELSE <<>>
    /\ srchOpen' = {}
    /\ srchHead' = <<>>
    /\ srchAll' = <<>>
    /\ LET early == SearchEarlyResponseD1(q, autocomplete, format, bound) IN
       IF early # NoResponse
       THEN /\ srchResp' = early
            /\ srchLog' = {}
            /\ UNCHANGED srchPc
       ELSE /\ srchResp' = NoResponse
            /\ srchLog' = {"d1:query"}
            /\ srchPc' = "d1query"
    /\ UNCHANGED <<headRows, countryRows, sqlPromise>>
    /\ SrchFrame

\* the awaited D1 query resolves with its rows
D1QueryRows ==
    /\ srchPc = "d1query"
    /\ \E rows \in SearchRows(headRows, srchFts, ParseLimit(srchReq.limit)) :
          /\ srchAll' = rows
          /\ srchResp' = FormatD1([i \in 1..Len(rows) |-> GeocoderResult(rows[i])], srchReq.format)
    /\ srchPc' = "idle"
    /\ UNCHANGED <<headRows, countryRows, sqlPromise, srchReq, srchFts, srchLog, srchOpen, srchHead>>
    /\ SrchFrame

\* the awaited D1 query rejects: rethrown by searchDivisions, caught by handleSearch
D1QueryThrows ==
    /\ srchPc = "d1query"
    /\ srchResp' = JsonError("Internal error", 500)
    /\ srchPc' = "idle"
    /\ UNCHANGED <<headRows, countryRows, sqlPromise, srchReq, srchFts, srchLog, srchOpen, srchHead, srchAll>>
    /\ SrchFrame

(***************************************************************************)
(* handleSearch of the R2-shard worker                                     *)
(***************************************************************************)
FormatR2(results, format) ==
    IF format = "geojson" THEN JsonFeatures(results) ELSE JsonResults(results)

\* the early returns without the test of the empty FTS query
SearchEarlyResponseR2NoTokenTest(q, autocomplete) ==
    IF Trim(q) = <<>> THEN JsonResults(<<>>)
    ELSE IF Len(q) > MaxQueryLength THEN JsonError("Query too long: max 200 characters", 400)
    ELSE NoResponse

\* the responses of the statements before the try block
SearchEarlyResponseR2(q, autocomplete) ==
    IF Trim(q) = <<>> THEN JsonResults(<<>>)
    ELSE IF Len(q) > MaxQueryLength THEN JsonError("Query too long: max 200 characters", 400)
    ELSE IF PrepareFtsQuery(q, autocomplete) = <<>> THEN JsonResults(<<>>)
    ELSE NoResponse

\* the response after the shard queries: convert, deduplicate, bias, sort, truncate, format
SearchSuccessR2(allResults, req) ==
    FormatR2(MergeResults(allResults, req.cfCountry, ParseLimit(req.limit)), req.format)

SearchCatchR2 == JsonError("Internal error", 500)

\* handleSearch up to its first await: the early returns, then getSql() is called
SrchHandleR2(q, limitP, autocomplete, format, cfCountry) ==
    /\ srchPc = "idle"
    /\ srchReq = NoSearchRequest
    /\ srchReq' = SearchRequest("r2", q, limitP, autocomplete, format, cfCountry, TRUE)
    /\ srchFts' = IF Trim(q) # <<>> /\ Len(q) <= MaxQueryLength
                  THEN PrepareFtsQuery(q, autocomplete) ELSE <<>>
    /\ srchOpen' = {}
    /\ srchHead' = <<>>
    /\ srchAll' = <<>>
    /\ LET early == SearchEarlyResponseR2(q, autocomplete) IN
       IF early # NoResponse
       THEN /\ srchResp' = early
            /\ srchLog' = {}
            /\ UNCHANGED <<srchPc, sqlPromise>>
       ELSE /\ srchResp' = NoResponse
            /\ srchLog' = IF sqlPromise = "null" THEN {"fetch:sql-wasm"} ELSE {}
            /\ sqlPromise' = IF sqlPromise = "null" THEN "pending" ELSE sqlPromise
            /\ srchPc' = "getSql"
    /\ UNCHANGED <<headRows, countryRows>>
    /\ SrchFrame

\* getSql() resolves; loadLatestVersion reads catalog.json
R2SqlResolves ==
    /\ srchPc = "getSql"
    /\ sqlPromise \in {"pending", "fulfilled"}
    /\ sqlPromise' = "fulfilled"
    /\ srchLog' = srchLog \cup {"r2:catalog.json"}
    /\ srchPc' = "version"
    /\ UNCHANGED <<headRows, countryRows, srchReq, srchFts, srchOpen, srchHead, srchAll, srchResp>>
    /\ SrchFrame

\* getSql() rejects (the WASM fetch or initSqlJs failed); the rejected promise stays cached
R2SqlRejects ==
    /\ srchPc = "getSql"
    /\ sqlPromise \in {"pending", "rejected"}
    /\ sqlPromise' = "rejected"
    /\ srchResp' = SearchCatchR2
    /\ srchPc' = "idle"
    /\ UNCHANGED <<headRows, countryRows, srchReq, srchFts, srchLog, srchOpen, srchHead, srchAll>>
    /\ SrchFrame

\* loadLatestVersion resolves; loadShard(HEAD) reads the shard item
R2VersionLoaded ==
    /\ srchPc = "version"
    /\ srchLog' = srchLog \cup {"r2:items/HEAD.json"}
    /\ srchPc' = "loadHead"
    /\ UNCHANGED <<headRows, countryRows, sqlPromise, srchReq, srchFts, srchOpen, srchHead, srchAll, srchResp>>
    /\ SrchFrame

\* loadLatestVersion throws: catalog.json not found, or no latest collection
R2VersionFails ==
    /\ srchPc = "version"
    /\ srchResp' = SearchCatchR2
    /\ srchPc' = "idle"
    /\ UNCHANGED <<headRows, countryRows, sqlPromise, srchReq, srchFts, srchLog, srchOpen, srchHead, srchAll>>
    /\ SrchFrame

\* loadShard(HEAD) throws: the item or the database object is not found
R2HeadLoadFails ==
    /\ srchPc = "loadHead"
    /\ srchResp' = SearchCatchR2
    /\ srchPc' = "idle"
    /\ UNCHANGED <<headRows, countryRows, sqlPromise, srchReq, srchFts, srchLog, srchOpen, srchHead, srchAll>>
    /\ SrchFrame

\* loadShard(HEAD) resolves but searchShard throws: headDb.close() is not reached
R2HeadSearchThrows ==
    /\ srchPc = "loadHead"
    /\ srchLog' = srchLog \cup {"r2:HEAD.db", "query:HEAD"}
    /\ srchOpen' = srchOpen \cup {"HEAD"}
    /\ srchResp' = SearchCatchR2
    /\ srchPc' = "idle"
    /\ UNCHANGED <<headRows, countryRows, sqlPromise, srchReq, srchFts, srchHead, srchAll>>
    /\ SrchFrame

\* loadShard(HEAD) resolves, searchShard returns, headDb.close(); then either
\* hasCountryShard reads the collection or the response is built
R2HeadSearched ==
    /\ srchPc = "loadHead"
    /\ \E rows \in SearchRows(headRows, srchFts, ParseLimit(srchReq.limit) * 5) :
          /\ srchHead' = rows
          /\ srchAll' = rows
          /\ IF srchReq.cfCountry # NoCountry
             THEN /\ srchLog' = srchLog \cup {"r2:HEAD.db", "query:HEAD", "r2:collection.json"}
                  /\ srchPc' = "hasCountry"
                  /\ UNCHANGED srchResp
             ELSE /\ srchLog' = srchLog \cup {"r2:HEAD.db", "query:HEAD"}
                  /\ srchPc' = "idle"
                  /\ srchResp' = SearchSuccessR2(rows, srchReq)
    /\ UNCHANGED <<headRows, countryRows, sqlPromise, srchReq, srchFts, srchOpen>>
    /\ SrchFrame

\* hasCountryShard resolves: true starts loadShard(country), false builds the response
R2HasCountry(exists) ==
    /\ srchPc = "hasCountry"
    /\ IF exists
       THEN /\ srchLog' = srchLog \cup {"r2:items/country.json"}
            /\ srchPc' = "loadCountry"
            /\ UNCHANGED srchResp
       ELSE /\ srchPc' = "idle"
            /\ srchResp' = SearchSuccessR2(srchAll, srchReq)
            /\ UNCHANGED srchLog
    /\ UNCHANGED <<headRows, countryRows, sqlPromise, srchReq, srchFts, srchOpen, srchHead, srchAll>>
    /\ SrchFrame

\* hasCountryShard rejects (the read or the JSON parse fails): it is awaited
\* outside the inner try, so the outer catch answers
R2HasCountryThrows ==
    /\ srchPc = "hasCountry"
    /\ srchResp' = SearchCatchR2
    /\ srchPc' = "idle"
    /\ UNCHANGED <<headRows, countryRows, sqlPromise, srchReq, srchFts, srchLog, srchOpen, srchHead, srchAll>>
    /\ SrchFrame

\* the rows of the shard of a country
CountryShard(country) == {r \in countryRows : r.country = country}

\* loadShard(country) resolves, searchShard returns, the results are
\* concatenated, countryDb.close(); the response is built
R2CountrySearched ==
    /\ srchPc = "loadCountry"
    /\ \E rows \in SearchRows(CountryShard(srchReq.cfCountry), srchFts, ParseLimit(srchReq.limit) * 5) :
          /\ srchAll' = srchAll \o rows
          /\ srchResp' = SearchSuccessR2(srchAll \o rows, srchReq)
    /\ srchLog' = srchLog \cup {"r2:country.db", "query:country"}
    /\ srchPc' = "idle"
    /\ UNCHANGED <<headRows, countryRows, sqlPromise, srchReq, srchFts, srchOpen, srchHead>>
    /\ SrchFrame

\* loadShard(country) throws: caught by the inner try, the response is built
\* from the HEAD results
R2CountryLoadFails ==
    /\ srchPc = "loadCountry"
    /\ srchResp' = SearchSuccessR2(srchAll, srchReq)
    /\ srchPc' = "idle"
    /\ UNCHANGED <<headRows, countryRows, sqlPromise, srchReq, srchFts, srchLog, srchOpen, srchHead, srchAll>>
    /\ SrchFrame

\* loadShard(country) resolves but searchShard throws: caught by the inner
\* try, countryDb.close() is not reached
R2CountrySearchThrows ==
    /\ srchPc = "loadCountry"
    /\ srchLog' = srchLog \cup {"r2:country.db", "query:country"}
    /\ srchOpen' = srchOpen \cup {"country"}
    /\ srchResp' = SearchSuccessR2(srchAll, srchReq)
    /\ srchPc' = "idle"
    /\ UNCHANGED <<headRows, countryRows, sqlPromise, srchReq, srchFts, srchHead, srchAll>>
    /\ SrchFrame

\* the response has been returned: the handler's locals are gone (the
\* module-level sqlPromise stays)
SrchDone ==
    /\ srchPc = "idle"
    /\ srchReq # NoSearchRequest
    /\ srchReq' = NoSearchRequest
    /\ srchFts' = <<>>
    /\ srchLog' = {}
    /\ srchOpen' = {}
    /\ srchHead' = <<>>
    /\ srchAll' = <<>>
    /\ srchResp' = NoResponse
    /\ UNCHANGED <<headRows, countryRows, sqlPromise, srchPc>>
    /\ SrchFrame

\* the continuations of a /search request
SrchSteps ==
    \/ SrchDone
    \/ D1QueryRows
    \/ D1QueryThrows
    \/ R2SqlResolves
    \/ R2SqlRejects
    \/ R2VersionLoaded
    \/ R2VersionFails
    \/ R2HeadLoadFails
    \/ R2HeadSearchThrows
    \/ R2HeadSearched
    \/ \E exists \in BOOLEAN : R2HasCountry(exists)
    \/ R2HasCountryThrows
    \/ R2CountrySearched
    \/ R2CountryLoadFails
    \/ R2CountrySearchThrows

(***************************************************************************)
(* Inputs of /search                                                       *)
(***************************************************************************)
Countries == {"US", "FR"}

\* options.limit of the client's search(): undefined (0 here), or a number
ClientLimitOptions == {0, 0 - 5, 2, 100}

\* limit: String(Math.min(Math.max(1, options.limit || 10), 40)) of the client
ClientLimitParam(optionsLimit) ==
    LET given == IF optionsLimit = 0 THEN DefaultLimit ELSE optionsLimit
        atLeast1 == IF given < 1 THEN 1 ELSE given
    IN  ParamNum(IF atLeast1 > MaxLimit THEN MaxLimit ELSE atLeast1)

\* the limit parameters tried: absent, "abc", 0, -3, 1, 41, and what the
\* client sends
LimitParams ==
    {ParamMissing, ParamText, ParamNum(0), ParamNum(0 - 3), ParamNum(1), ParamNum(41)}
    \cup {ClientLimitParam(o) : o \in ClientLimitOptions}

\* queries for the ranking runs: "a" and "aa"
WordQueries == {WordA, WordAA}

\* queries for the input-handling runs, over the units " ", "!", "-", "A",
\* "a": every text of up to MaxBodyLen units, and the long texts made of at
\* most one unit followed by PadLen or PadLen + 1 times " ", "!" or "a"
MaxBodyLen == 2
PadLen == 199
QueryUnits == {32, 33, 45, 65, 97}
PadUnits == {32, 33, 97}
Padding(c, n) == [i \in 1..n |-> c]
\* queries of several tokens: "a a", "A-a !a", "a! A a "
PhraseQueries == {<<97, 32, 97>>, <<65, 45, 97, 32, 33, 97>>, <<97, 33, 32, 65, 32, 97, 32>>}
Queries ==
    SeqsUpTo(QueryUnits, MaxBodyLen)
    \cup PhraseQueries
    \cup {b \o Padding(c, n) : b \in SeqsUpTo(QueryUnits, 1), c \in PadUnits, n \in {PadLen, PadLen + 1}}

(***************************************************************************)
(* deduplicateResults as a function of its argument                        *)
(***************************************************************************)
MaxResults == 3

\* the results the shards' rows convert to (two of them share gers_id "x")
ResultUniverse == {GeocoderResult(r) : r \in HeadUniverse \cup CountryUniverse}
ResultLists == SeqsUpTo(ResultUniverse, MaxResults)

DedupFrame == UNCHANGED <<regVars, revVars, srchVars, catVars, cliVars, wrkVars, sqlVars>>

\* results = deduplicateResults(results)
DedupCall ==
    /\ dedupOutput = Pending
    /\ dedupOutput' = DeduplicateResults(dedupInput)
    /\ UNCHANGED <<dedupInput, dedupRuns>>
    /\ DedupFrame

\* the returned list is handed to deduplicateResults again
DedupAgain ==
    /\ dedupOutput # Pending
    /\ dedupRuns < 2
    /\ dedupInput' = dedupOutput
    /\ dedupOutput' = Pending
    /\ dedupRuns' = dedupRuns + 1
    /\ DedupFrame

(***************************************************************************)
(* STAC catalog: getStacCatalog, clearCatalogCache, getLatestRelease.      *)
(* A catalog object is the record of its identity (the number of the       *)
(* response.json() call that created it) and its links.  Calls are async:  *)
(* a call suspended at an await lets other calls run.                      *)
(***************************************************************************)
MaxCalls == 3
MaxLinks == 2
Calls == 1..MaxCalls

CatNull == [obj |-> 0, links |-> <<>>]

\* "./2025-12-17.0/catalog.json"
HrefDec ==
    <<46, 47, 50, 48, 50, 53, 45, 49, 50, 45, 49, 55, 46, 48, 47, 99, 97, 116, 97, 108, 111, 103, 46, 106, 115, 111, 110>>
\* "./2025-10-23.12/catalog.json"
HrefOct ==
    <<46, 47, 50, 48, 50, 53, 45, 49, 48, 45, 50, 51, 46, 49, 50, 47, 99, 97, 116, 97, 108, 111, 103, 46, 106, 115, 111, 110>>
\* "./latest/catalog.json"
HrefNamed ==
    <<46, 47, 108, 97, 116, 101, 115, 116, 47, 99, 97, 116, 97, 108, 111, 103, 46, 106, 115, 111, 110>>
\* "2025-12-17.0/catalog.json"
HrefBare ==
    <<50, 48, 50, 53, 45, 49, 50, 45, 49, 55, 46, 48, 47, 99, 97, 116, 97, 108, 111, 103, 46, 106, 115, 111, 110>>
\* "x/./2024-01-02.3/c"
HrefNested ==
    <<120, 47, 46, 47, 50, 48, 50, 52, 45, 48, 49, 45, 48, 50, 46, 51, 47, 99>>
\* "./2025-12-17./catalog.json"
HrefNoBuild ==
    <<46, 47, 50, 48, 50, 53, 45, 49, 50, 45, 49, 55, 46, 47, 99, 97, 116, 97, 108, 111, 103, 46, 106, 115, 111, 110>>
\* "2025-12-17.0"
VersionDec ==
    <<50, 48, 50, 53, 45, 49, 50, 45, 49, 55, 46, 48>>
\* "2025-10-23.12"
VersionOct ==
    <<50, 48, 50, 53, 45, 49, 48, 45, 50, 51, 46, 49, 50>>
\* "2024-01-02.3"
VersionNested ==
    <<50, 48, 50, 52, 45, 48, 49, 45, 48, 50, 46, 51>>

Hrefs == {HrefDec, HrefOct, HrefNamed, HrefBare, HrefNested, HrefNoBuild}

\* the latest member of a link: true, false, or absent
LatestValues == {"true", "false", "absent"}
Links == [latest : LatestValues, href : Hrefs]
LinkLists == SeqsUpTo(Links, MaxLinks)
\* the links of the catalog in the runs about caching
FixedLinks == <<[latest |-> "true", href |-> HrefDec]>>

\* the response statuses of a fetch that is not ok
NotOkStatuses == {404, 500}

IsDigit(c) == c >= 48 /\ c <= 57
DigitsAt(s, i, n) == i + n - 1 <= Len(s) /\ \A k \in i..(i + n - 1) : IsDigit(s[k])
UnitAt(s, i, c) == i <= Len(s) /\ s[i] = c

\* [0-9]+ from position i: the position after the last digit of the run
RECURSIVE DigitRunEnd(_, _)
DigitRunEnd(s, i) == IF i <= Len(s) /\ IsDigit(s[i]) THEN DigitRunEnd(s, i + 1) ELSE i

\* /\.\/([0-9]{4}-[0-9]{2}-[0-9]{2}\.[0-9]+)\// matches at position i
MatchesAt(s, i) ==
    /\ UnitAt(s, i, 46)
    /\ UnitAt(s, i + 1, 47)
    /\ DigitsAt(s, i + 2, 4)
    /\ UnitAt(s, i + 6, 45)
    /\ DigitsAt(s, i + 7, 2)
    /\ UnitAt(s, i + 9, 45)
    /\ DigitsAt(s, i + 10, 2)
    /\ UnitAt(s, i + 12, 46)
    /\ DigitsAt(s, i + 13, 1)
    /\ UnitAt(s, DigitRunEnd(s, i + 13), 47)

\* link.href.match(...): <<>> for null, else <<match[1]>>
HrefMatch(s) ==
    LET at == {i \in 1..Len(s) : MatchesAt(s, i)} IN
    IF at = {} THEN <<>>
    ELSE LET i == CHOOSE i \in at : \A j \in at : i <= j IN
         <<SubSeq(s, i + 2, DigitRunEnd(s, i + 13) - 1)>>

\* what a call settles with: a catalog object, a version, or an error
CatValue(obj, version, error, status) ==
    [obj |-> obj, version |-> version, error |-> error, status |-> status]
NoValue == CatValue(0, <<>>, "", 0)

FetchErrorNoStatus(status) == CatValue(0, <<>>, "Failed to fetch STAC catalog", 0)
\* new Error(`Failed to fetch STAC catalog: ${response.status}`)
FetchError(status) == CatValue(0, <<>>, "Failed to fetch STAC catalog", status)

LatestReleaseLast(links) ==
    LET hits == {i \in 1..Len(links) : links[i].latest = "true" /\ HrefMatch(links[i].href) # <<>>} IN
    IF hits = {} THEN CatValue(0, <<>>, "Could not find latest release in STAC catalog", 0)
    ELSE CatValue(0, HrefMatch(links[CHOOSE i \in hits : \A j \in hits : i >= j].href)[1], "", 0)

\* the for loop of getLatestRelease over catalog.links
RECURSIVE LatestReleaseFrom(_, _)
LatestReleaseFrom(links, i) ==
    IF i > Len(links)
    THEN CatValue(0, <<>>, "Could not find latest release in STAC catalog", 0)
    ELSE IF links[i].latest = "true" /\ HrefMatch(links[i].href) # <<>>
         THEN CatValue(0, HrefMatch(links[i].href)[1], "", 0)
         ELSE LatestReleaseFrom(links, i + 1)
LatestRelease(links) == LatestReleaseFrom(links, 1)

\* what the call settles with once getStacCatalog has the catalog
CatSettle(fn, catalog) ==
    IF fn = "getStacCatalog" THEN CatValue(catalog.obj, <<>>, "", 0)
    ELSE LatestRelease(catalog.links)

\* fetched: the call issued a fetch; response: the status of the response the
\* fetch resolved with (0: none); sawDone, afterClear: catDone and catCleared
\* when the call was made
CatCallState(fn, pc, outcome, value, fetched, sawDone, afterClear) ==
    [fn |-> fn, pc |-> pc, outcome |-> outcome, value |-> value, response |-> 0,
     fetched |-> fetched, sawDone |-> sawDone, afterClear |-> afterClear]
CatNotCalled == CatCallState("none", "new", "none", NoValue, FALSE, {}, FALSE)

OutcomeOf(value) == IF value.error = "" THEN "returned" ELSE "rejected"

CatFrame == UNCHANGED <<regVars, revVars, srchVars, dedupVars, cliVars, wrkVars, sqlVars>>

\* a call of getStacCatalog or getLatestRelease up to its first await: the
\* cached catalog is used, or the fetch is issued
CatCall(c, fn) ==
    /\ catCalls[c].pc = "new"
    /\ \A b \in 1..(c - 1) : catCalls[b].pc # "new"
    /\ IF catalogCache # CatNull
       THEN LET value == CatSettle(fn, catalogCache) IN
            /\ catCalls' = [catCalls EXCEPT ![c] =
                   CatCallState(fn, "done", OutcomeOf(value), value, FALSE, catDone, catCleared)]
            /\ catDone' = IF fn = "getStacCatalog" THEN catDone \cup {c} ELSE catDone
       ELSE /\ catCalls' = [catCalls EXCEPT ![c] =
                   CatCallState(fn, "fetch", "none", NoValue, TRUE, catDone, catCleared)]
            /\ UNCHANGED catDone
    /\ catCleared' = FALSE
    /\ UNCHANGED <<catServer, catalogCache, catObjects>>
    /\ CatFrame

\* the fetch resolves with an ok response: response.json() is awaited
CatFetchOk(c) ==
    /\ catCalls[c].pc = "fetch"
    /\ catCalls' = [catCalls EXCEPT ![c].pc = "json", ![c].response = 200]
    /\ UNCHANGED <<catServer, catalogCache, catObjects, catDone, catCleared>>
    /\ CatFrame

\* the fetch resolves with a response that is not ok: the call throws
CatFetchNotOk(c, status) ==
    /\ catCalls[c].pc = "fetch"
    /\ catCalls' = [catCalls EXCEPT ![c].pc = "done", ![c].outcome = "rejected",
                                     ![c].value = FetchError(status), ![c].response = status]
    /\ UNCHANGED <<catServer, catalogCache, catObjects, catDone, catCleared>>
    /\ CatFrame

\* fetchFn rejects, or response.json() rejects: the call rejects with that error
CatAwaitRejects(c) ==
    /\ catCalls[c].pc \in {"fetch", "json"}
    /\ catCalls' = [catCalls EXCEPT ![c].pc = "done", ![c].outcome = "rejected",
                                     ![c].value = CatValue(0, <<>>, "rejected await", 0)]
    /\ UNCHANGED <<catServer, catalogCache, catObjects, catDone, catCleared>>
    /\ CatFrame

\* response.json() resolves with a new catalog object: it is cached, and the
\* call settles
CatJsonResolves(c) ==
    /\ catCalls[c].pc = "json"
    /\ LET catalog == [obj |-> catObjects + 1, links |-> catServer]
           value == CatSettle(catCalls[c].fn, catalog)
       IN  /\ catalogCache' = catalog
           /\ catCalls' = [catCalls EXCEPT ![c].pc = "done", ![c].outcome = OutcomeOf(value),
                                            ![c].value = value]
    /\ catObjects' = catObjects + 1
    /\ catDone' = IF catCalls[c].fn = "getStacCatalog" THEN catDone \cup {c} ELSE catDone
    /\ UNCHANGED <<catServer, catCleared>>
    /\ CatFrame

\* clearCatalogCache()
ClearCatalogCache ==
    /\ ~catCleared
    /\ \E c \in Calls : catCalls[c].pc # "new"
    /\ \E c \in Calls : catCalls[c].pc = "new"
    /\ catalogCache' = CatNull
    /\ catDone' = {}
    /\ catCleared' = TRUE
    /\ UNCHANGED <<catServer, catCalls, catObjects>>
    /\ CatFrame

(***************************************************************************)
(* Client: fetchWithRetry and doFetch of OvertureGeocoder                  *)
(***************************************************************************)
MaxRetries == 2

\* how a doFetch settles: a response with its status, or a thrown value: the
\* AbortError of the timeout, another Error, or a value that is not an Error
FetchResponse(status) == [kind |-> "response", status |-> status]
FetchThrow(kind) == [kind |-> kind, status |-> 0]
ResponseStatuses == {200, 304, 404, 500}
ThrowKinds == {"AbortError", "Error", "nonError"}

\* what fetchWithRetry settles with: the response, or the class of the error thrown
CliValue(kind, status, attempts) == [kind |-> kind, status |-> status, attempts |-> attempts]
CliNone == CliValue("none", 0, 0)

IsOk(status) == status >= 200 /\ status <= 299
IsClientErrorAlways(status) == FALSE
\* response.status >= 400 && response.status < 500
IsClientError(status) == status >= 400 /\ status < 500

\* the branches of fetchWithRetry for an attempt that has settled with
\* outcome: <<TRUE, _>> to delay and call fetchWithRetry(url, attempt + 1),
\* <<FALSE, value>> to settle with value
FetchWithRetryStep(outcome, attempt, retries) ==
    IF outcome.kind = "response"
    THEN IF IsOk(outcome.status) THEN <<FALSE, CliValue("response", outcome.status, attempt + 1)>>
         ELSE IF IsClientError(outcome.status)
              THEN <<FALSE, CliValue("GeocoderError", outcome.status, attempt + 1)>>
         ELSE IF attempt < retries THEN <<TRUE, CliNone>>
         ELSE <<FALSE, CliValue("GeocoderError", outcome.status, attempt + 1)>>
    ELSE IF outcome.kind = "AbortError"
         THEN IF attempt < retries THEN <<TRUE, CliNone>>
              ELSE <<FALSE, CliValue("GeocoderTimeoutError", 0, attempt + 1)>>
    ELSE IF outcome.kind = "Error"
         THEN IF attempt < retries THEN <<TRUE, CliNone>>
              ELSE <<FALSE, CliValue("GeocoderNetworkError", 0, attempt + 1)>>
    ELSE <<FALSE, CliValue("thrown value", 0, attempt + 1)>>

CliFrame == UNCHANGED <<regVars, revVars, srchVars, dedupVars, catVars, wrkVars, sqlVars>>

\* fetchWithRetry(url): doFetch is called and awaited
CliCall ==
    /\ cliPc = "idle"
    /\ cliPc' = "fetch"
    /\ cliAttempt' = 0
    /\ cliOutcomes' = <<>>
    /\ cliResult' = CliNone
    /\ UNCHANGED cliRetries
    /\ CliFrame

\* the awaited doFetch has settled with outcome
CliSettle(outcome) ==
    /\ cliPc = "fetch"
    /\ cliOutcomes' = Append(cliOutcomes, outcome)
    /\ LET step == FetchWithRetryStep(outcome, cliAttempt, cliRetries) IN
       IF step[1]
       THEN /\ cliPc' = "delay"
            /\ UNCHANGED cliResult
       ELSE /\ cliPc' = "done"
            /\ cliResult' = step[2]
    /\ UNCHANGED <<cliRetries, cliAttempt>>
    /\ CliFrame

\* doFetch resolves with a response
CliFetchResponds(status) == CliSettle(FetchResponse(status))

\* doFetch rejects: the timer aborted the request, fetchFn rejected, or a
\* hook threw
CliFetchThrows(kind) == CliSettle(FetchThrow(kind))

\* the delay has elapsed: fetchWithRetry(url, attempt + 1) calls doFetch
CliDelayElapsed ==
    /\ cliPc = "delay"
    /\ cliPc' = "fetch"
    /\ cliAttempt' = cliAttempt + 1
    /\ UNCHANGED <<cliRetries, cliOutcomes, cliResult>>
    /\ CliFrame

(***************************************************************************)
(* The fetch handlers: request dispatch of the D1 worker ("d1": rate       *)
(* limit, /search, /reverse) and of the first worker ("ma": /search and    *)
(* /lookup over DB_MA).  The handlers of /search and /reverse of the D1    *)
(* worker are taken with the responses defined above, over empty tables.   *)
(***************************************************************************)
Preflight == [status |-> 200, kind |-> "preflight", error |-> "", results |-> <<>>]
ServiceInfo == [status |-> 200, kind |-> "info", error |-> "", results |-> <<>>]
\* the promise fetch returned was rejected: no response was built
UncaughtException == [status |-> 0, kind |-> "uncaught", error |-> "", results |-> <<>>]

WorkerRequest(worker, method, path, q, latP, ids, format, bound) ==
    [worker |-> worker, method |-> method, path |-> path, q |-> q, lat |-> latP,
     ids |-> ids, format |-> format, bound |-> bound]
NoWorkerRequest == WorkerRequest("none", "GET", "/", <<>>, ParamMissing, {}, "jsonv2", FALSE)

Workers == {"d1", "ma"}
Methods == {"GET", "OPTIONS"}
Paths == {"/search", "/reverse", "/lookup", "/", "/other"}
FeatureIds == {"x", "y"}

\* every order of a set of rows (a SELECT without ORDER BY)
RECURSIVE AllOrders(_)
AllOrders(S) ==
    IF S = {} THEN {<<>>}
    ELSE UNION {{<<x>> \o rest : rest \in AllOrders(S \ {x})} : x \in S}

\* handleSearch and searchFeatures of the first worker, up to the query
SearchEarlyResponseMa(q, bound) ==
    IF Trim(q) = <<>> THEN JsonList(<<>>)
    ELSE IF ~bound THEN JsonError("No database available", 400)
    ELSE IF Tokens(q) = <<>> THEN JsonList(<<>>)
    ELSE NoResponse

\* handleLookup up to the query
LookupEarlyResponse(ids, bound) ==
    IF ids = {} THEN JsonList(<<>>)
    ELSE IF ~bound THEN JsonError("No database available", 400)
    ELSE NoResponse

\* the switch on url.pathname: the response when no query is awaited, or
\* NoResponse when the handler goes on to its query (a /reverse request
\* carries the same text for lat and for lon)
Dispatch(req) ==
    IF req.worker = "d1"
    THEN CASE req.path = "/search" -> SearchEarlyResponseD1(req.q, TRUE, req.format, req.bound)
           [] req.path = "/reverse" ->
                ReverseEarlyResponse(ParseFloat(req.lat), ParseFloat(req.lat), req.bound)
           [] req.path = "/" -> ServiceInfo
           [] OTHER -> JsonError("Not found", 404)
    ELSE CASE req.path = "/search" -> SearchEarlyResponseMa(req.q, req.bound)
           [] req.path = "/lookup" -> LookupEarlyResponse(req.ids, req.bound)
           [] req.path = "/" -> ServiceInfo
           [] OTHER -> JsonError("Not found", 404)

LookupFormat(results, format) ==
    IF format = "geojson" THEN JsonFeatures(results) ELSE JsonList(results)

\* the responses a handler builds once its query has returned rows
QueryResponses(req, features) ==
    IF req.worker = "d1"
    THEN IF req.path = "/search" THEN {FormatD1(<<>>, req.format)}
         ELSE {ReverseRowsResponse(<<>>, req.format)}
    ELSE IF req.path = "/search" THEN {LookupFormat(<<>>, req.format)}
         ELSE {LookupFormat(o, req.format) : o \in AllOrders(req.ids \cap features)}

QueryThrowsResponseAllCaught(req) == JsonError("Internal error", 500)
\* what the request ends with when the awaited query throws: the catch of
\* handleSearch / handleReverse of the D1 worker, the catch of searchFeatures
\* of the first worker, nothing in handleLookup
QueryThrowsResponse(req) ==
    IF req.worker = "d1"
    THEN IF req.path = "/search" THEN JsonError("Internal error", 500) ELSE ReverseCatchResponse
    ELSE IF req.path = "/search" THEN LookupFormat(<<>>, req.format)
         ELSE UncaughtException

WrkFrame == UNCHANGED <<regVars, revVars, srchVars, dedupVars, catVars, cliVars, sqlVars>>

\* the steps of fetch after the rate-limit check
WrkDispatch(req) ==
    LET early == Dispatch(req) IN
    IF early # NoResponse
    THEN wrkResp' = early /\ wrkPc' = "idle"
    ELSE wrkResp' = NoResponse /\ wrkPc' = "query"

\* fetch(request, env) up to its first await
WrkFetch(worker, method, path, q, latP, ids, format, bound) ==
    /\ wrkPc = "idle"
    /\ wrkReq = NoWorkerRequest
    /\ wrkReq' = WorkerRequest(worker, method, path, q, latP, ids, format, bound)
    /\ wrkRaised' = {}
    /\ IF method = "OPTIONS"
       THEN wrkResp' = Preflight /\ wrkPc' = "idle"
       ELSE IF worker = "d1"
            THEN wrkResp' = NoResponse /\ wrkPc' = "rateLimit"
            ELSE WrkDispatch(wrkReq')
    /\ UNCHANGED wrkFeatures
    /\ WrkFrame

\* env.RATE_LIMITER.limit() resolves
WrkRateLimitResolves(success) ==
    /\ wrkPc = "rateLimit"
    /\ IF success
       THEN WrkDispatch(wrkReq)
       ELSE /\ wrkResp' = JsonError("Rate limit exceeded. Please slow down.", 429)
            /\ wrkPc' = "idle"
    /\ UNCHANGED <<wrkFeatures, wrkReq, wrkRaised>>
    /\ WrkFrame

\* env.RATE_LIMITER.limit() rejects, or the binding is missing: checkRateLimit
\* and fetch have no try block
WrkRateLimitRejects ==
    /\ wrkPc = "rateLimit"
    /\ wrkRaised' = wrkRaised \cup {"rateLimit"}
    /\ wrkResp' = UncaughtException
    /\ wrkPc' = "idle"
    /\ UNCHANGED <<wrkFeatures, wrkReq>>
    /\ WrkFrame

\* the handler's query resolves
WrkQueryResolves ==
    /\ wrkPc = "query"
    /\ wrkResp' \in QueryResponses(wrkReq, wrkFeatures)
    /\ wrkPc' = "idle"
    /\ UNCHANGED <<wrkFeatures, wrkReq, wrkRaised>>
    /\ WrkFrame

\* the handler's query throws
WrkQueryThrows ==
    /\ wrkPc = "query"
    /\ wrkRaised' = wrkRaised \cup {"query"}
    /\ wrkResp' = QueryThrowsResponse(wrkReq)
    /\ wrkPc' = "idle"
    /\ UNCHANGED <<wrkFeatures, wrkReq>>
    /\ WrkFrame

\* the response has been sent
WrkDone ==
    /\ wrkPc = "idle"
    /\ wrkReq # NoWorkerRequest
    /\ wrkReq' = NoWorkerRequest
    /\ wrkRaised' = {}
    /\ wrkResp' = NoResponse
    /\ UNCHANGED <<wrkFeatures, wrkPc>>
    /\ WrkFrame

(***************************************************************************)
(* getSql: the cached initialisation of sql.js, with overlapping callers   *)
(***************************************************************************)
MaxCallers == 4
Callers == 1..MaxCallers

SqlCaller(pc, promise) == [pc |-> pc, promise |-> promise]

SqlCachedNever(promise) == FALSE
\* if (!sqlPromise) is false: the cached promise is returned
SqlCached(promise) == promise # "null"

SqlFrame == UNCHANGED <<regVars, revVars, srchRest, dedupVars, catVars, cliVars, wrkVars>>

\* getSql(): synchronous up to its return; the first call creates the promise
\* and starts the initialising function, which runs up to its fetch
SqlCall(c) ==
    /\ sqlCallers[c].pc = "new"
    /\ IF SqlCached(sqlPromise)
       THEN /\ sqlCallers' = [sqlCallers EXCEPT ![c] = SqlCaller("waiting", sqlCreated)]
            /\ UNCHANGED <<sqlPromise, sqlPc, sqlFetches, sqlCreated>>
       ELSE /\ sqlCallers' = [sqlCallers EXCEPT ![c] = SqlCaller("waiting", sqlCreated + 1)]
            /\ sqlPromise' = "pending"
            /\ sqlPc' = "fetch"
            /\ sqlFetches' = sqlFetches + 1
            /\ sqlCreated' = sqlCreated + 1
    /\ UNCHANGED sqlInits
    /\ SqlFrame

\* fetch(SQL_WASM_URL) resolves: arrayBuffer() is awaited
SqlFetchResolves ==
    /\ sqlPc = "fetch"
    /\ sqlPc' = "buffer"
    /\ UNCHANGED <<sqlPromise, sqlCallers, sqlFetches, sqlInits, sqlCreated>>
    /\ SqlFrame

\* wasmResponse.arrayBuffer() resolves: initSqlJs is called
SqlBufferResolves ==
    /\ sqlPc = "buffer"
    /\ sqlPc' = "init"
    /\ sqlInits' = sqlInits + 1
    /\ UNCHANGED <<sqlPromise, sqlCallers, sqlFetches, sqlCreated>>
    /\ SqlFrame

\* initSqlJs resolves: the promise is fulfilled
SqlInitResolves ==
    /\ sqlPc = "init"
    /\ sqlPc' = "done"
    /\ sqlPromise' = "fulfilled"
    /\ UNCHANGED <<sqlCallers, sqlFetches, sqlInits, sqlCreated>>
    /\ SqlFrame

\* the fetch, arrayBuffer() or initSqlJs rejects: the promise is rejected and
\* stays in sqlPromise
SqlAwaitRejects ==
    /\ sqlPc \in {"fetch", "buffer", "init"}
    /\ sqlPc' = "done"
    /\ sqlPromise' = "rejected"
    /\ UNCHANGED <<sqlCallers, sqlFetches, sqlInits, sqlCreated>>
    /\ SqlFrame

\* await getSql() of a caller settles as the promise did
SqlCallerSettles(c) ==
    /\ sqlCallers[c].pc = "waiting"
    /\ sqlPromise \in {"fulfilled", "rejected"}
    /\ sqlCallers' = [sqlCallers EXCEPT ![c].pc = sqlPromise]
    /\ UNCHANGED <<sqlPromise, sqlPc, sqlFetches, sqlInits, sqlCreated>>
    /\ SqlFrame

(***************************************************************************)
(* Specifications                                                          *)
(***************************************************************************)
\* no /reverse request yet, no reverse database
RevIdle ==
    /\ revDb = {}
    /\ revBound = FALSE
    /\ revReq = NoRequest
    /\ revPc = "idle"
    /\ revQueries = 0
    /\ revOutcome = "none"
    /\ revCandidates = <<>>
    /\ revResp = NoResponse

\* no /search request yet, empty shards
SrchIdle ==
    /\ headRows = {}
    /\ countryRows = {}
    /\ sqlPromise = "null"
    /\ srchReq = NoSearchRequest
    /\ srchFts = <<>>
    /\ srchPc = "idle"
    /\ srchLog = {}
    /\ srchOpen = {}
    /\ srchHead = <<>>
    /\ srchAll = <<>>
    /\ srchResp = NoResponse

SqlIdle ==
    /\ sqlCallers = [c \in Callers |-> SqlCaller("new", 0)]
    /\ sqlPc = "none"
    /\ sqlFetches = 0
    /\ sqlInits = 0
    /\ sqlCreated = 0

WrkIdle ==
    /\ wrkFeatures = {}
    /\ wrkReq = NoWorkerRequest
    /\ wrkPc = "idle"
    /\ wrkRaised = {}
    /\ wrkResp = NoResponse

CliIdle ==
    /\ cliRetries = 0
    /\ cliAttempt = 0
    /\ cliPc = "idle"
    /\ cliOutcomes = <<>>
    /\ cliResult = CliNone

\* no call made yet
CatFresh ==
    /\ catalogCache = CatNull
    /\ catCalls = [c \in Calls |-> CatNotCalled]
    /\ catObjects = 0
    /\ catDone = {}
    /\ catCleared = FALSE

CatIdle ==
    /\ catServer = <<>>
    /\ catalogCache = CatNull
    /\ catCalls = [c \in Calls |-> CatNotCalled]
    /\ catObjects = 0
    /\ catDone = {}
    /\ catCleared = FALSE

DedupIdle ==
    /\ dedupInput = <<>>
    /\ dedupOutput = Pending
    /\ dedupRuns = 0

\* no lookup in progress (the state of this component in the other specifications)
RegIdle ==
    /\ manifest = <<>>
    /\ gersId = <<>>
    /\ callArg = <<>>
    /\ callForm = "given"
    /\ id = <<>>
    /\ left = 1
    /\ right = 1
    /\ rpc = "idle"
    /\ steps = 0
    /\ returned = [f \in {"given", "upper"} |-> Pending]

RegInit ==
    /\ RevIdle
    /\ SrchIdle
    /\ DedupIdle
    /\ CatIdle
    /\ CliIdle
    /\ WrkIdle
    /\ SqlIdle
    /\ manifest \in Manifests
    /\ gersId \in Ids
    /\ callArg = <<>>
    /\ callForm = "given"
    /\ id = <<>>
    /\ left = 1
    /\ right = 1
    /\ rpc = "idle"
    /\ steps = 0
    /\ returned = [f \in {"given", "upper"} |-> Pending]

RegNext ==
    \/ \E form \in {"given", "upper"} : RegCall(form)
    \/ RegLoopStep
    \/ RegLoopExit
    \/ RegReturn

SpecRegistry == RegInit /\ [][RegNext]_vars

RevInit ==
    /\ RegIdle
    /\ SrchIdle
    /\ DedupIdle
    /\ CatIdle
    /\ CliIdle
    /\ WrkIdle
    /\ SqlIdle
    /\ revDb \in (SUBSET RevUniverse) \cup {LargeTable}
    /\ revBound \in BOOLEAN
    /\ revReq = NoRequest
    /\ revPc = "idle"
    /\ revQueries = 0
    /\ revOutcome = "none"
    /\ revCandidates = <<>>
    /\ revResp = NoResponse

RevNext ==
    \/ \E latP \in LatParams, lonP \in LonParams, format \in Formats : RevHandleD1(latP, lonP, format)
    \/ RevQueryRows
    \/ RevQueryThrows
    \/ \E latP \in LatParams, lonP \in LonParams : RevHandleR2(latP, lonP)
    \/ RevDone

SpecReverse == RevInit /\ [][RevNext]_vars

\* forward search over varied shard contents, any number of requests
SrchInit ==
    /\ RegIdle
    /\ RevIdle
    /\ DedupIdle
    /\ CatIdle
    /\ CliIdle
    /\ WrkIdle
    /\ SqlIdle
    /\ headRows \in SUBSET HeadUniverse
    /\ countryRows \in SUBSET CountryUniverse
    /\ sqlPromise = "null"
    /\ srchReq = NoSearchRequest
    /\ srchFts = <<>>
    /\ srchPc = "idle"
    /\ srchLog = {}
    /\ srchOpen = {}
    /\ srchHead = <<>>
    /\ srchAll = <<>>
    /\ srchResp = NoResponse

SrchNext ==
    \/ \E q \in WordQueries, limitP \in LimitParams, format \in Formats :
          SrchHandleD1(q, limitP, TRUE, format, TRUE)
    \/ \E q \in WordQueries, limitP \in LimitParams, format \in Formats, cfCountry \in Countries \cup {NoCountry} :
          SrchHandleR2(q, limitP, TRUE, format, cfCountry)
    \/ SrchSteps

SpecSearch == SrchInit /\ [][SrchNext]_vars

\* forward search over every query text, fixed shards
InputInit ==
    /\ RegIdle
    /\ RevIdle
    /\ DedupIdle
    /\ CatIdle
    /\ CliIdle
    /\ WrkIdle
    /\ SqlIdle
    /\ headRows = HeadUniverse
    /\ countryRows = CountryUniverse
    /\ sqlPromise = "null"
    /\ srchReq = NoSearchRequest
    /\ srchFts = <<>>
    /\ srchPc = "idle"
    /\ srchLog = {}
    /\ srchOpen = {}
    /\ srchHead = <<>>
    /\ srchAll = <<>>
    /\ srchResp = NoResponse

InputNext ==
    \/ \E q \in Queries, autocomplete \in BOOLEAN, format \in Formats, bound \in BOOLEAN :
          SrchHandleD1(q, ParamMissing, autocomplete, format, bound)
    \/ \E q \in Queries, autocomplete \in BOOLEAN, format \in Formats, cfCountry \in {NoCountry, "US"} :
          SrchHandleR2(q, ParamMissing, autocomplete, format, cfCountry)
    \/ SrchSteps

SpecSearchInput == InputInit /\ [][InputNext]_vars

\* deduplicateResults over every list of up to MaxResults results
DedupInit ==
    /\ RegIdle
    /\ RevIdle
    /\ SrchIdle
    /\ CatIdle
    /\ CliIdle
    /\ WrkIdle
    /\ SqlIdle
    /\ dedupInput \in ResultLists
    /\ dedupOutput = Pending
    /\ dedupRuns = 0

DedupNext ==
    \/ DedupCall
    \/ DedupAgain

SpecDedup == DedupInit /\ [][DedupNext]_vars

\* calls of getStacCatalog and clearCatalogCache, overlapping or not
CatInit ==
    /\ RegIdle
    /\ RevIdle
    /\ SrchIdle
    /\ DedupIdle
    /\ CliIdle
    /\ WrkIdle
    /\ SqlIdle
    /\ catServer = FixedLinks
    /\ CatFresh

CatNext ==
    \/ \E c \in Calls : CatCall(c, "getStacCatalog")
    \/ \E c \in Calls : CatFetchOk(c)
    \/ \E c \in Calls, status \in NotOkStatuses : CatFetchNotOk(c, status)
    \/ \E c \in Calls : CatAwaitRejects(c)
    \/ \E c \in Calls : CatJsonResolves(c)
    \/ ClearCatalogCache

SpecCatalog == CatInit /\ [][CatNext]_vars

\* calls of getLatestRelease over every list of up to MaxLinks links
LatestInit ==
    /\ RegIdle
    /\ RevIdle
    /\ SrchIdle
    /\ DedupIdle
    /\ CliIdle
    /\ WrkIdle
    /\ SqlIdle
    /\ catServer \in LinkLists
    /\ CatFresh

LatestNext ==
    \/ \E c \in Calls : CatCall(c, "getLatestRelease")
    \/ \E c \in Calls : CatFetchOk(c)
    \/ \E c \in Calls, status \in NotOkStatuses : CatFetchNotOk(c, status)
    \/ \E c \in Calls : CatAwaitRejects(c)
    \/ \E c \in Calls : CatJsonResolves(c)

SpecLatest == LatestInit /\ [][LatestNext]_vars

\* one request of a client configured with 0..MaxRetries retries
CliInit ==
    /\ RegIdle
    /\ RevIdle
    /\ SrchIdle
    /\ DedupIdle
    /\ CatIdle
    /\ WrkIdle
    /\ SqlIdle
    /\ cliRetries \in 0..MaxRetries
    /\ cliAttempt = 0
    /\ cliPc = "idle"
    /\ cliOutcomes = <<>>
    /\ cliResult = CliNone

CliNext ==
    \/ CliCall
    \/ \E status \in ResponseStatuses : CliFetchResponds(status)
    \/ \E kind \in ThrowKinds : CliFetchThrows(kind)
    \/ CliDelayElapsed

SpecClient == CliInit /\ [][CliNext]_vars

\* requests to the two workers
WrkInit ==
    /\ RegIdle
    /\ RevIdle
    /\ SrchIdle
    /\ DedupIdle
    /\ CatIdle
    /\ CliIdle
    /\ SqlIdle
    /\ wrkFeatures \in SUBSET FeatureIds
    /\ wrkReq = NoWorkerRequest
    /\ wrkPc = "idle"
    /\ wrkRaised = {}
    /\ wrkResp = NoResponse

WrkNext ==
    \/ \E worker \in Workers, method \in Methods, path \in Paths, q \in {<<>>, WordA},
          latP \in {ParamMissing, ParamNum(0)}, ids \in SUBSET FeatureIds,
          format \in Formats, bound \in BOOLEAN :
            WrkFetch(worker, method, path, q, latP, ids, format, bound)
    \/ \E success \in BOOLEAN : WrkRateLimitResolves(success)
    \/ WrkRateLimitRejects
    \/ WrkQueryResolves
    \/ WrkQueryThrows
    \/ WrkDone

SpecWorker == WrkInit /\ [][WrkNext]_vars

\* up to MaxCallers requests calling getSql, in any interleaving
SqlInit ==
    /\ RegIdle
    /\ RevIdle
    /\ SrchIdle
    /\ DedupIdle
    /\ CatIdle
    /\ CliIdle
    /\ WrkIdle
    /\ SqlIdle

SqlNext ==
    \/ \E c \in Callers : SqlCall(c)
    \/ SqlFetchResolves
    \/ SqlBufferResolves
    \/ SqlInitResolves
    \/ SqlAwaitRejects
    \/ \E c \in Callers : SqlCallerSettles(c)

SpecSql == SqlInit /\ [][SqlNext]_vars

(***************************************************************************)
(* Registry lookup: claims.                                                *)
(***************************************************************************)
\* the argument the call of form f was given
ArgOf(f) == IF f = "upper" THEN ToUpperCase(gersId) ELSE gersId

\* indices of the entries whose bound is >= the target
CoveringEntries(m, target) == {i \in 1..Len(m) : StrGeq(m[i][2], target)}

LeftmostCovering(m, target) ==
    CHOOSE i \in CoveringEntries(m, target) : \A j \in CoveringEntries(m, target) : i <= j

RECURSIVE Pow2(_)
Pow2(n) == IF n = 0 THEN 1 ELSE 2 * Pow2(n - 1)

\* C1: on a manifest sorted ascending by bound, findRegistryFile terminates
\* (its loop runs at most ceil(log2 n) times and no call gets stuck) and
\* returns the filename of the leftmost entry whose bound is >= the
\* lowercased identifier; it returns null exactly when the manifest is empty
\* or the lowercased identifier is greater than the last bound.
C1_FindRegistryFileExact ==
    SortedByBound(manifest) =>
        /\ (rpc # "idle" => Pow2(steps) < 2 * Len(manifest))
        /\ (rpc # "idle" => ENABLED RegNext)
        /\ \A f \in {"given", "upper"} :
              returned[f] # Pending =>
                 LET target == ToLowerCase(ArgOf(f)) IN
                 /\ CoveringEntries(manifest, target) # {}
                       => returned[f] = manifest[LeftmostCovering(manifest, target)][1]
                 /\ returned[f] = Null
                       <=> \/ Len(manifest) = 0
                           \/ StrLess(manifest[Len(manifest)][2], target)

\* C1 witness: an uppercase identifier equal (lowercased) to the bound of the
\* second of two distinct bounds was looked up and mapped to that entry.
C1_Witness ==
    /\ SortedByBound(manifest)
    /\ Len(manifest) >= 2
    /\ manifest[1][2] # manifest[2][2]
    /\ gersId # ToLowerCase(gersId)
    /\ manifest[2][2] = ToLowerCase(gersId)
    /\ returned["given"] = manifest[2][1]

\* C2: for every manifest (sorted or not) findRegistryFile returns the same
\* result for an identifier and for its uppercase form.
C2_CaseInsensitive ==
    (returned["given"] # Pending /\ returned["upper"] # Pending)
        => returned["given"] = returned["upper"]

\* C2 witness: both forms of an identifier with a lowercase letter were
\* looked up and a file was found.
C2_Witness ==
    /\ ToUpperCase(gersId) # gersId
    /\ returned["given"] # Pending
    /\ returned["upper"] # Pending
    /\ returned["given"] # Null

(***************************************************************************)
(* Reverse geocoding: claims.                                              *)
(***************************************************************************)
\* a lat / lon parameter that is missing, not a number, or out of range
LatParamInvalid(p) == p.kind \in {"missing", "text"} \/ p.num < -90 \/ p.num > 90
LonParamInvalid(p) == p.kind \in {"missing", "text"} \/ p.num < -180 \/ p.num > 180

RevHandled == revReq.worker # "none" /\ revPc = "idle"
RevValidD1 ==
    /\ revReq.worker = "d1"
    /\ ~LatParamInvalid(revReq.lat)
    /\ ~LonParamInvalid(revReq.lon)

\* the record's bounding box contains the point
PointInBbox(r, lat, lon) ==
    /\ r.bbox_xmin <= lon /\ lon <= r.bbox_xmax
    /\ r.bbox_ymin <= lat /\ lat <= r.bbox_ymax

\* C5: a /reverse request with an invalid lat or lon is answered 400 at once
\* and the reverse database is not queried for it, in both workers and
\* whether or not the reverse database is bound.
C5_InvalidCoordinatesRejected ==
    (revReq.worker # "none" /\ (LatParamInvalid(revReq.lat) \/ LonParamInvalid(revReq.lon)))
        => /\ revPc = "idle"
           /\ revResp.status = 400
           /\ revResp.kind = "error"
           /\ revQueries = 0
           /\ revOutcome = "none"

\* C5 witness: the D1 worker rejected an out-of-range lat with 400 although
\* no reverse database is bound (the 503 branch was not taken).
C5_Witness ==
    /\ revReq.worker = "d1"
    /\ ~revBound
    /\ revReq.lat = ParamNum(91)
    /\ ~LonParamInvalid(revReq.lon)
    /\ revResp.status = 400
    /\ revQueries = 0

\* C6: with the reverse database available, a valid coordinate pair that no
\* record's bounding box contains gets a 200 response with an empty list.
C6_NoCandidatesEmptyList ==
    (RevValidD1 /\ revOutcome = "rows"
       /\ \A r \in revDb : ~PointInBbox(r, revReq.lat.num, revReq.lon.num))
        => revResp = JsonList(<<>>)

\* C6 witness: a geojson request over a non-empty table, none of whose
\* records contains the point, was answered with the empty list.
C6_Witness ==
    /\ RevValidD1
    /\ revOutcome = "rows"
    /\ revReq.format = "geojson"
    /\ Cardinality(revDb) >= 2
    /\ \A r \in revDb : ~PointInBbox(r, revReq.lat.num, revReq.lon.num)
    /\ revResp = JsonList(<<>>)

\* C7 as stated: an unavailable reverse database (binding absent or query
\* failed) is answered with 503.
C7_Original ==
    (RevValidD1 /\ RevHandled /\ (~revBound \/ revOutcome = "threw"))
        => revResp.status = 503

\* C7 (amended): for valid coordinates an absent binding is answered with 503
\* without a query, a failed query with 500 "Internal error"; neither is
\* answered with a result list.
C7_UnavailableIsAnError ==
    (RevValidD1 /\ RevHandled)
        => /\ ~revBound =>
                /\ revResp = JsonError("Reverse geocoding not available", 503)
                /\ revQueries = 0
           /\ revOutcome = "threw" => revResp = JsonError("Internal error", 500)
           /\ (~revBound \/ revOutcome = "threw") => revResp.kind = "error"

\* C7 witness: the query of a valid request failed and was answered 500.
C7_Witness ==
    /\ RevValidD1
    /\ RevHandled
    /\ revQueries = 1
    /\ revOutcome = "threw"
    /\ revResp.status = 500

\* the hierarchies of the response, by result
RevHierarchy(i) == revResp.results[i].hierarchy
HierarchyIds(h) == {h[j].gers_id : j \in 1..Len(h)}
RevPool == {revCandidates[i] : i \in 1..Len(revCandidates)}
RevAnswered == revOutcome = "rows" /\ revResp.status = 200

\* C8 as stated: of two candidates with the same subtype and different area
\* only the smaller appears in any hierarchy of the response.
C8_Original ==
    RevAnswered =>
        \A a \in RevPool, b \in RevPool :
            (a.subtype = b.subtype /\ a.area < b.area)
                => \A i \in 1..Len(revResp.results) : b.gers_id \notin HierarchyIds(RevHierarchy(i))

\* C8 (amended): no hierarchy contains two entries with the same subtype, and
\* of two candidates with the same subtype and different area only the
\* smaller appears in the hierarchy of a result R when both have area >=
\* R.area; the hierarchy of a result larger than the smaller candidate is
\* built without it and may contain the larger one.
C8_HierarchyDedup ==
    RevAnswered =>
        \A i \in 1..Len(revResp.results) :
            LET h == RevHierarchy(i)
                R == revCandidates[i]
            IN  /\ \A j \in 1..Len(h), k \in 1..Len(h) : j # k => h[j].subtype # h[k].subtype
                /\ \A a \in RevPool, b \in RevPool :
                      (a.subtype = b.subtype /\ a.area < b.area /\ a.area >= R.area)
                          => /\ b.gers_id \notin HierarchyIds(h)
                             /\ \E j \in 1..Len(h) : h[j].subtype = a.subtype

\* C8 witness: both neighborhoods are candidates; the hierarchy of the
\* smaller one lists it and not the larger one, the hierarchy of the larger
\* one lists the larger one.
C8_Witness ==
    /\ RevAnswered
    /\ \E i \in 1..Len(revCandidates), k \in 1..Len(revCandidates) :
          /\ revCandidates[i].gers_id = "n1"
          /\ revCandidates[k].gers_id = "n2"
          /\ "n1" \in HierarchyIds(RevHierarchy(i))
          /\ "n2" \notin HierarchyIds(RevHierarchy(i))
          /\ "n2" \in HierarchyIds(RevHierarchy(k))

\* the fixed specificity order of the subtypes; an unknown subtype ranks 0
SpecificityOrder ==
    <<"neighborhood", "macrohood", "locality", "localadmin", "county", "region", "country">>
Rank(subtype) ==
    IF \E n \in 1..Len(SpecificityOrder) : SpecificityOrder[n] = subtype
    THEN CHOOSE n \in 1..Len(SpecificityOrder) : SpecificityOrder[n] = subtype
    ELSE 0

\* C9: every hierarchy of a reverse response is ordered by the subtype
\* priority, entries of unknown subtype (priority 0) before all known ones.
C9_HierarchyOrder ==
    RevAnswered =>
        \A i \in 1..Len(revResp.results) :
            LET h == RevHierarchy(i) IN
            \A j \in 1..Len(h), k \in 1..Len(h) :
                j < k => Rank(h[j].subtype) <= Rank(h[k].subtype)

\* C9 witness: a hierarchy that starts with an entry of unknown subtype and
\* lists the locality before the county although the county's area is smaller.
C9_Witness ==
    /\ RevAnswered
    /\ \E i \in 1..Len(revResp.results) :
          LET h == RevHierarchy(i) IN
          /\ Len(h) >= 4
          /\ Rank(h[1].subtype) = 0
          /\ \E j \in 1..Len(h), k \in 1..Len(h) :
                /\ j < k
                /\ h[j].gers_id = "l1"
                /\ h[k].gers_id = "c1"

(***************************************************************************)
(* Forward search: claims                                                  *)
(***************************************************************************)
\* a /search request is in the handler, and the handler has answered it
SrchStarted == srchReq.worker # "none"
SrchHandled == SrchStarted /\ srchPc = "idle"
ZeroTokens == Tokens(srchReq.q) = <<>>
EmptySuccess == srchResp.status = 200 /\ srchResp.results = <<>>

\* C3 as stated: every query that reduces to zero tokens, of any length, is
\* answered with a successful empty result list and no storage access.
C3_Original ==
    (SrchStarted /\ ZeroTokens) =>
        /\ srchPc = "idle"
        /\ srchLog = {}
        /\ EmptySuccess

\* C3 amended: a query that reduces to zero tokens is answered at once and
\* without any storage access; the answer is a successful empty result list,
\* except that the R2-shard worker answers 400 when the query is longer than
\* 200 characters and not whitespace-only.
C3_ZeroTokensEmpty ==
    (SrchStarted /\ ZeroTokens) =>
        /\ srchPc = "idle"
        /\ srchLog = {}
        /\ srchOpen = {}
        /\ IF /\ srchReq.worker = "r2"
              /\ Len(srchReq.q) > MaxQueryLength
              /\ Trim(srchReq.q) # <<>>
           THEN srchResp.status = 400
           ELSE EmptySuccess

\* a punctuation-only query was answered by the R2-shard worker with an empty list
C3_Witness ==
    /\ SrchHandled
    /\ srchReq.worker = "r2"
    /\ srchReq.q # <<>>
    /\ Trim(srchReq.q) # <<>>
    /\ ZeroTokens
    /\ EmptySuccess
    /\ srchLog = {}

\* C4 as stated: a /search request whose query is longer than 200 characters
\* is answered 400, and no catalog read, shard load or database query
\* happens for it.
C4_Original ==
    (SrchStarted /\ Len(srchReq.q) > MaxQueryLength) =>
        /\ srchPc = "idle"
        /\ srchLog = {}
        /\ srchResp.status = 400

\* the D1 worker has sent a query of 201 characters to the database
C4_LongQueryQueried ==
    /\ srchReq.worker = "d1"
    /\ Len(srchReq.q) > MaxQueryLength
    /\ "d1:query" \in srchLog

(***************************************************************************)
(* Forward search: deduplication                                           *)
(***************************************************************************)
SrchResults == srchResp.results
RowIds(rows) == {rows[i].gers_id : i \in 1..Len(rows)}
FirstRow(rows, gid) ==
    rows[CHOOSE i \in 1..Len(rows) :
            /\ rows[i].gers_id = gid
            /\ \A j \in 1..(i - 1) : rows[j].gers_id # gid]
MinOf(a, b) == IF a < b THEN a ELSE b
BiasOf(country) ==
    IF srchReq.cfCountry # NoCountry /\ country = srchReq.cfCountry THEN BiasBoost ELSE 0

\* C10: a forward-search response never holds two results with the same
\* gers_id; in the R2-shard worker the result of an identifier is made from
\* its first row in the concatenation of the HEAD rows and the country rows
\* (the bias is added to that row's importance), and the response holds
\* min(limit, number of distinct identifiers) results: duplicates are removed
\* before bias, sort and truncation.
C10_DedupFirstOccurrence ==
    (SrchHandled /\ srchResp.status = 200) =>
        /\ \A i, j \in 1..Len(SrchResults) :
              SrchResults[i].gers_id = SrchResults[j].gers_id => i = j
        /\ srchReq.worker = "r2" =>
              /\ \A i \in 1..Len(SrchResults) :
                    /\ SrchResults[i].gers_id \in RowIds(srchAll)
                    /\ LET first == FirstRow(srchAll, SrchResults[i].gers_id) IN
                       /\ SrchResults[i].name = first.primary_name
                       /\ SrchResults[i].country = first.country
                       /\ SrchResults[i].importance =
                             Importance(first.boosted_score) + BiasOf(first.country)
              /\ Len(SrchResults) =
                    MinOf(ParseLimit(srchReq.limit), Cardinality(RowIds(srchAll)))

\* the R2-shard worker answered a request whose HEAD rows and country rows
\* hold the same identifier with different scores, and the answer holds it
C10_Witness ==
    /\ SrchHandled
    /\ srchReq.worker = "r2"
    /\ srchResp.status = 200
    /\ srchReq.cfCountry # NoCountry
    /\ Len(srchAll) > Len(srchHead)
    /\ \E i \in 1..Len(srchHead), j \in (Len(srchHead) + 1)..Len(srchAll) :
          /\ srchAll[i].gers_id = srchAll[j].gers_id
          /\ srchAll[i].boosted_score # srchAll[j].boosted_score
          /\ \E k \in 1..Len(SrchResults) : SrchResults[k].gers_id = srchAll[i].gers_id

(***************************************************************************)
(* deduplicateResults: claims                                              *)
(***************************************************************************)
NoRepeatedIds(results) ==
    \A i, j \in 1..Len(results) : results[i].gers_id = results[j].gers_id => i = j

\* C11: deduplicateResults applied to a list that is already deduplicated (a
\* list without a repeated gers_id, in particular a list deduplicateResults
\* returned) returns the same elements in the same order.
C11_DedupIdempotent ==
    (dedupOutput # Pending /\ (NoRepeatedIds(dedupInput) \/ dedupRuns > 0)) =>
        dedupOutput = dedupInput

\* a list of two results that deduplicateResults returned was handed to it
\* again and came back unchanged
C11_Witness ==
    /\ dedupRuns = 1
    /\ dedupOutput # Pending
    /\ Len(dedupOutput) = 2
    /\ dedupOutput = dedupInput

(***************************************************************************)
(* Forward search: importance                                              *)
(***************************************************************************)
\* importance 1, in fiftieths
ImportanceOne == 50

\* C12 as stated: every importance of a /search response lies in 0..1,
\* whether or not a bias country is applied.
C12_Original ==
    (SrchHandled /\ srchResp.status = 200) =>
        \A i \in 1..Len(SrchResults) :
            SrchResults[i].importance >= 0 /\ SrchResults[i].importance <= ImportanceOne

\* the R2-shard worker answered with a result of the bias country whose
\* importance is above 1
C12_BiasedAboveOne ==
    /\ SrchHandled
    /\ srchReq.worker = "r2"
    /\ srchResp.status = 200
    /\ \E i \in 1..Len(SrchResults) :
          /\ SrchResults[i].country = srchReq.cfCountry
          /\ SrchResults[i].importance > ImportanceOne

(***************************************************************************)
(* Forward search: the country shard                                       *)
(***************************************************************************)
\* the HEAD shard was loaded, searched and closed for the request
HeadSearched == "query:HEAD" \in srchLog /\ "HEAD" \notin srchOpen

\* C13 as stated: whenever the HEAD shard loads and is searched successfully,
\* the response is a success carrying at least the HEAD shard's results,
\* whatever goes wrong in the country-shard existence check, load or query.
C13_Original ==
    (SrchHandled /\ srchReq.worker = "r2" /\ HeadSearched) =>
        /\ srchResp.status = 200
        /\ Len(SrchResults) >= MinOf(ParseLimit(srchReq.limit), Cardinality(RowIds(srchHead)))

\* the HEAD shard returned rows, the existence check of the country shard
\* failed, and the request was answered 500
C13_ExistenceCheckFails ==
    /\ SrchHandled
    /\ srchReq.worker = "r2"
    /\ HeadSearched
    /\ srchHead # <<>>
    /\ "r2:collection.json" \in srchLog
    /\ "r2:items/country.json" \notin srchLog
    /\ srchResp.status = 500

(***************************************************************************)
(* STAC catalog: claims                                                    *)
(***************************************************************************)
CatMade(c) == catCalls[c].pc # "new"
CatReturned(c) == catCalls[c].pc = "done" /\ catCalls[c].outcome = "returned"

\* C14 as stated: after one getStacCatalog call has completed successfully,
\* every later call made before clearCatalogCache returns the same catalog
\* object and issues no fetch; after clearCatalogCache, the next call fetches
\* again.
C14_Original ==
    \A d \in Calls :
        CatMade(d) =>
            /\ \A c \in catCalls[d].sawDone :
                  /\ ~catCalls[d].fetched
                  /\ CatReturned(d) => catCalls[d].value.obj = catCalls[c].value.obj
            /\ catCalls[d].afterClear => catCalls[d].fetched

\* two overlapping calls have cached two different catalog objects one after
\* the other, and a call made after both returned the second object
C14_OverlappingCalls ==
    \E c, d \in Calls :
        /\ c \in catCalls[d].sawDone
        /\ CatReturned(d)
        /\ ~catCalls[d].fetched
        /\ catCalls[d].value.obj # catCalls[c].value.obj

\* C15: when the fetch resolves with a response that is not ok, the call
\* rejects with 'Failed to fetch STAC catalog: <status>' and that step leaves
\* catalogCache as it was; the cache never holds anything but a catalog
\* object made by response.json(), and as long as no fetch has delivered a
\* catalog the cache is empty and every call made has fetched.
C15_FailedFetchNotCached ==
    /\ [](\A c \in Calls :
            catCalls[c].response \notin {0, 200} =>
                /\ catCalls[c].pc = "done"
                /\ catCalls[c].outcome = "rejected"
                /\ catCalls[c].value.error = "Failed to fetch STAC catalog"
                /\ catCalls[c].value.status = catCalls[c].response)
    /\ [](catalogCache # CatNull => catalogCache.obj \in 1..catObjects)
    /\ [](catObjects = 0 =>
            /\ catalogCache = CatNull
            /\ \A c \in Calls : CatMade(c) => catCalls[c].fetched)
    /\ [][\A c \in Calls :
            (catCalls[c].response = 0 /\ catCalls'[c].response \notin {0, 200}) =>
                catalogCache' = catalogCache]_vars

\* the first call was rejected for a 500 response, and a later call fetched
\* again and returned a catalog
C15_Witness ==
    /\ catCalls[1].pc = "done"
    /\ catCalls[1].response = 500
    /\ catCalls[1].outcome = "rejected"
    /\ \E d \in Calls : d > 1 /\ catCalls[d].fetched /\ CatReturned(d) /\ catCalls[d].value.obj = 1

\* the version the pattern ./YYYY-MM-DD.N/ extracts from each href, <<>> for none
ExpectedVersion(href) ==
    CASE href = HrefDec -> <<VersionDec>>
      [] href = HrefOct -> <<VersionOct>>
      [] href = HrefNested -> <<VersionNested>>
      [] OTHER -> <<>>

LatestCandidates(links) ==
    {i \in 1..Len(links) : links[i].latest = "true" /\ ExpectedVersion(links[i].href) # <<>>}

\* the call got the catalog: neither the fetch nor response.json() failed
CatGotCatalog(c) ==
    /\ catCalls[c].pc = "done"
    /\ catCalls[c].value.error \notin {"Failed to fetch STAC catalog", "rejected await"}

\* C16: getLatestRelease returns the version in the href of the first link
\* marked latest whose href holds ./<version>/, and rejects with 'Could not
\* find latest release in STAC catalog' when there is no such link.
C16_LatestRelease ==
    \A c \in Calls :
        (catCalls[c].fn = "getLatestRelease" /\ CatGotCatalog(c)) =>
            LET hits == LatestCandidates(catServer) IN
            IF hits = {}
            THEN /\ catCalls[c].outcome = "rejected"
                 /\ catCalls[c].value.error = "Could not find latest release in STAC catalog"
            ELSE /\ catCalls[c].outcome = "returned"
                 /\ catCalls[c].value.version =
                       ExpectedVersion(catServer[CHOOSE i \in hits : \A j \in hits : i <= j].href)[1]

\* the first link is marked latest but its href has no version, the second
\* is marked latest too, and the call returned the second link's version
C16_Witness ==
    /\ Len(catServer) = 2
    /\ catServer[1] = [latest |-> "true", href |-> HrefNamed]
    /\ catServer[2] = [latest |-> "true", href |-> HrefOct]
    /\ \E c \in Calls :
          /\ catCalls[c].fn = "getLatestRelease"
          /\ CatReturned(c)
          /\ catCalls[c].value.version = VersionOct

(***************************************************************************)
(* Forward search: the limit                                               *)
(***************************************************************************)
\* the limit the contract gives for each limit parameter: 10 when absent,
\* not a number or zero, otherwise the number brought into 1..40
ExpectedLimit(p) ==
    IF p.kind \in {"missing", "text"} \/ p.num = 0 THEN 10
    ELSE IF p.num < 1 THEN 1
    ELSE IF p.num > 40 THEN 40
    ELSE p.num

\* the importance the response gives to the identifier gid of allResults
FinalImportance(gid) ==
    LET first == FirstRow(srchAll, gid) IN
    Importance(first.boosted_score) + BiasOf(first.country)

\* C17: for every limit parameter the effective limit is the integer the
\* contract gives, in 1..40; a /search response holds at most that many
\* results; in the R2-shard worker the response is in descending order of
\* importance, holds min(limit, distinct identifiers) results, and no
\* identifier left out has a higher importance than one that is in: the
\* truncation follows deduplication, bias and sort.
C17_LimitApplied ==
    SrchStarted =>
        /\ ParseLimit(srchReq.limit) = ExpectedLimit(srchReq.limit)
        /\ ParseLimit(srchReq.limit) \in 1..40
        /\ (SrchHandled /\ srchResp.status = 200) =>
              /\ Len(SrchResults) <= ExpectedLimit(srchReq.limit)
              /\ srchReq.worker = "r2" =>
                    /\ Len(SrchResults) =
                          MinOf(ExpectedLimit(srchReq.limit), Cardinality(RowIds(srchAll)))
                    /\ \A i \in 1..(Len(SrchResults) - 1) :
                          SrchResults[i].importance >= SrchResults[i + 1].importance
                    /\ \A gid \in RowIds(srchAll) \ RowIds(SrchResults) :
                          \A i \in 1..Len(SrchResults) :
                              SrchResults[i].importance >= FinalImportance(gid)

\* the R2-shard worker answered a request with limit 1 whose shards returned
\* several identifiers, the best of them not the first row
C17_Witness ==
    /\ SrchHandled
    /\ srchReq.worker = "r2"
    /\ srchReq.limit = ParamNum(0 - 3)
    /\ srchResp.status = 200
    /\ Len(SrchResults) = 1
    /\ Cardinality(RowIds(srchAll)) > 1
    /\ SrchResults[1].gers_id # srchAll[1].gers_id

(***************************************************************************)
(* Client: claims                                                          *)
(***************************************************************************)
CliAttempts == Len(cliOutcomes)
CliDone == cliPc = "done"
CliLast == cliOutcomes[Len(cliOutcomes)]
IsServerError(o) == o.kind = "response" /\ o.status >= 500 /\ o.status <= 599
IsNotOkNotClient(o) ==
    o.kind = "response" /\ (o.status < 200 \/ (o.status > 299 /\ o.status < 400) \/ o.status > 499)

WrkHandled == wrkReq.worker # "none" /\ wrkPc = "idle"

\* C19 as stated: every error raised while a request is handled (in the
\* rate-limit check, /search, /reverse or /lookup) is converted into a JSON
\* error response; no request ends with an uncaught exception.
C19_Original ==
    WrkHandled =>
        /\ wrkResp.kind # "uncaught"
        /\ wrkRaised # {} => (wrkResp.kind = "error" /\ wrkResp.status >= 400)

\* the rate-limit check raised, and the request ended with an uncaught exception
C19_RateLimitUncaught ==
    /\ WrkHandled
    /\ wrkReq.worker = "d1"
    /\ "rateLimit" \in wrkRaised
    /\ wrkResp = UncaughtException

\* the query of /lookup raised, and the request ended with an uncaught exception
C19_LookupUncaught ==
    /\ WrkHandled
    /\ wrkReq.path = "/lookup"
    /\ "query" \in wrkRaised
    /\ wrkResp = UncaughtException

(***************************************************************************)
(* Forward search: order of the shard queries                              *)
(***************************************************************************)
\* the HEAD shard is being loaded and searched
HeadInFlight == srchReq.worker = "r2" /\ srchPc = "loadHead"
\* the work on the country shard (existence check, load, query) has begun
CountryStarted == "r2:collection.json" \in srchLog

\* C20 as stated: the HEAD shard query and the country-shard query run
\* concurrently, the country-shard work not waiting for the HEAD query: while
\* the HEAD shard is in flight for a request with a country, the work on the
\* country shard has begun as well; and the results are merged only after
\* both have completed.
C20_Original ==
    /\ (HeadInFlight /\ srchReq.cfCountry # NoCountry) => CountryStarted
    /\ (srchReq.worker = "r2" /\ srchResp.status = 200) => srchPc = "idle"

\* the country-shard work is in flight and the HEAD shard was searched and
\* closed before it began
C20_CountryAfterHead ==
    /\ srchReq.worker = "r2"
    /\ srchPc \in {"hasCountry", "loadCountry"}
    /\ HeadSearched
    /\ srchResp = NoResponse

(***************************************************************************)
(* getSql: claims                                                          *)
(***************************************************************************)
\* C21: for any number of sequential or overlapping callers of getSql, the
\* WASM fetch and initSqlJs run at most once, one promise is created, every
\* caller is given that promise and settles as it does.
C21_InitializedOnce ==
    /\ sqlFetches <= 1
    /\ sqlInits <= 1
    /\ sqlCreated <= 1
    /\ \A c \in Callers :
          sqlCallers[c].pc # "new" =>
              /\ sqlCallers[c].promise = 1
              /\ sqlFetches = 1
              /\ sqlCallers[c].pc \in {"fulfilled", "rejected"} => sqlCallers[c].pc = sqlPromise

\* one caller called while the fetch was in flight, another after the
\* initialisation had finished; both have the runtime of the one initSqlJs call
C21_Witness ==
    /\ sqlPromise = "fulfilled"
    /\ \A c \in Callers : sqlCallers[c].pc = "fulfilled"
    /\ sqlFetches = 1
    /\ sqlInits = 1

(***************************************************************************)
(* /search: order of the results                                           *)
(***************************************************************************)
\* the row of allResults the i-th result of the response was made from
ResultRow(i) == FirstRow(srchAll, SrchResults[i].gers_id)

\* C22: in a /search response of the R2-shard worker, of two results that
\* both got no bias addition the one with the strictly lower boosted score
\* never comes after the other, also when both importances are clamped to 1
\* and when rows of a country shard were merged in.
C22_BestFirst ==
    (SrchHandled /\ srchReq.worker = "r2" /\ srchResp.status = 200) =>
        \A i, j \in 1..Len(SrchResults) :
            (/\ i < j
             /\ BiasOf(ResultRow(i).country) = 0
             /\ BiasOf(ResultRow(j).country) = 0)
                => ResultRow(i).boosted_score <= ResultRow(j).boosted_score

\* a merged response with a bias country in which two results without bias
\* have different scores and the same importance 1
C22_Witness ==
    /\ SrchHandled
    /\ srchReq.worker = "r2"
    /\ srchResp.status = 200
    /\ srchReq.cfCountry = "FR"
    /\ Len(srchAll) > Len(srchHead)
    /\ \E i, j \in 1..Len(SrchResults) :
          /\ i < j
          /\ BiasOf(ResultRow(i).country) = 0
          /\ BiasOf(ResultRow(j).country) = 0
          /\ ResultRow(i).boosted_score < ResultRow(j).boosted_score
          /\ SrchResults[i].importance = ImportanceOne
          /\ SrchResults[j].importance = ImportanceOne

(***************************************************************************)
(* prepareFtsQuery: the terms of the FTS5 query                            *)
(***************************************************************************)
\* the maximal runs of letters, digits and hyphens of a string, left to right
TokenRuns(s) ==
    LET isTok(i) == i \in 1..Len(s) /\ IsTokenUnit(s[i])
        starts == {i \in 1..Len(s) : isTok(i) /\ ~isTok(i - 1)}
        ends == {j \in 1..Len(s) : isTok(j) /\ ~isTok(j + 1)}
        endOf(i) == CHOOSE j \in ends : j >= i /\ \A e \in ends : e >= i => j <= e
        nth(k) == CHOOSE i \in starts : Cardinality({h \in starts : h < i}) = k - 1
    IN [k \in 1..Cardinality(starts) |-> SubSeq(s, nth(k), endOf(nth(k)))]

\* the text a term of the FTS5 query must have
ExpectedTerm(token, wildcard) ==
    IF wildcard THEN <<34>> \o token \o <<34, 42>> ELSE <<34>> \o token \o <<34>>

\* C23: prepareFtsQuery emits one quoted term per token of the query, in
\* input order; a term is the token between double quotes, followed by * for
\* the last token when autocomplete is true and for no token otherwise; the
\* handler passes these terms to the index.
C23_QuotedTerms ==
    SrchStarted =>
        LET tokens == TokenRuns(ToLowerCase(srchReq.q))
            terms == PrepareFtsQuery(srchReq.q, srchReq.autocomplete)
            text == FtsQueryText(terms)
            pieces == IF text = <<>> THEN <<>> ELSE SplitOnSpace(text)
        IN /\ Len(terms) = Len(tokens)
           /\ Len(pieces) = Len(tokens)
           /\ \A i \in 1..Len(tokens) :
                 /\ terms[i].text = tokens[i]
                 /\ terms[i].prefix <=> (srchReq.autocomplete /\ i = Len(tokens))
                 /\ pieces[i] = ExpectedTerm(tokens[i], srchReq.autocomplete /\ i = Len(tokens))
           /\ srchFts \in {<<>>, terms}

\* a query of three tokens with autocomplete: two exact terms, then a prefix term
C23_Witness ==
    /\ SrchStarted
    /\ srchReq.autocomplete
    /\ Len(srchFts) = 3
    /\ srchFts = PrepareFtsQuery(srchReq.q, TRUE)
    /\ ~srchFts[1].prefix
    /\ ~srchFts[2].prefix
    /\ srchFts[3].prefix
    /\ FtsQueryText(srchFts) = <<34, 97, 34, 32, 34, 97, 34, 32, 34, 97, 34, 42>>

(***************************************************************************)
(* /reverse: the result list                                               *)
(***************************************************************************)
\* the rows of the table whose bounding box contains the requested point
RevContaining == {r \in revDb : PointInBbox(r, revReq.lat.num, revReq.lon.num)}

\* C24: the results of a reverse response are the candidates the query
\* returned, in its order: ascending area, at most 50, the smallest rows of
\* those containing the point; building a hierarchy leaves the candidate
\* list as it was, so every hierarchy is built from that same list.
C24_ResultsByArea ==
    RevAnswered =>
        /\ Len(revResp.results) = Len(revCandidates)
        /\ Len(revResp.results) <= 50
        /\ Len(revResp.results) = MinOf(50, Cardinality(RevContaining))
        /\ \A i \in 1..Len(revCandidates) :
              /\ revCandidates[i] \in RevContaining
              /\ revResp.results[i].gers_id = revCandidates[i].gers_id
              /\ CandidatesAfter(revCandidates[i], revCandidates) = revCandidates
              /\ RevHierarchy(i) = BuildHierarchyForDivision(revCandidates[i], revCandidates)
              /\ \A j \in 1..Len(revCandidates) :
                    i < j => /\ revCandidates[i].area <= revCandidates[j].area
                             /\ revCandidates[i].gers_id # revCandidates[j].gers_id
        /\ \A r \in RevContaining \ RevPool : \A c \in RevPool : c.area <= r.area

\* more than 50 rows contain the point: the response lists the 50 smallest
C24_Witness ==
    /\ RevAnswered
    /\ Cardinality(RevContaining) > 50
    /\ Len(revResp.results) = 50
    /\ revResp.results[1].gers_id = "1"
    /\ revResp.results[50].gers_id = "50"

\* the county is listed before the larger locality, whose hierarchy entry comes
\* first in the county's hierarchy
C24_WitnessOrder ==
    /\ RevAnswered
    /\ \E i \in 1..Len(revCandidates) :
          /\ i < Len(revCandidates)
          /\ revCandidates[i].gers_id = "c1"
          /\ revCandidates[i + 1].gers_id = "l1"
          /\ \E j \in 1..Len(RevHierarchy(i)) :
                /\ j < Len(RevHierarchy(i))
                /\ RevHierarchy(i)[j].gers_id = "l1"
                /\ RevHierarchy(i)[j + 1].gers_id = "c1"

\* C25 as stated: the hierarchy of every result R of a reverse response
\* consists of candidates of the same response with area >= R.area, and R's
\* own identifier is among its entries.
C25_Original ==
    RevAnswered =>
        \A i \in 1..Len(revResp.results) :
            LET R == revCandidates[i] IN
            /\ \A e \in HierarchyIds(RevHierarchy(i)) :
                  \E c \in RevPool : c.gers_id = e /\ c.area >= R.area
            /\ R.gers_id \in HierarchyIds(RevHierarchy(i))

\* what holds: every entry is a candidate with area >= R.area, and the entry
\* of R's subtype is R or a candidate of R's area listed before R
C25_EntriesContain ==
    RevAnswered =>
        \A i \in 1..Len(revResp.results) :
            LET R == revCandidates[i]
                h == RevHierarchy(i)
            IN  /\ \A e \in HierarchyIds(h) :
                      \E c \in RevPool : c.gers_id = e /\ c.area >= R.area
                /\ \E j \in 1..Len(h) :
                      /\ h[j].subtype = R.subtype
                      /\ \/ h[j].gers_id = R.gers_id
                         \/ \E k \in 1..(i - 1) :
                               /\ revCandidates[k].gers_id = h[j].gers_id
                               /\ revCandidates[k].area = R.area

\* two neighborhoods of the same area are candidates: the hierarchy of the
\* one listed second holds the other one and not the result itself
C25_OwnEntryDropped ==
    /\ RevAnswered
    /\ \E i \in 1..Len(revResp.results) :
          /\ revResp.results[i].gers_id = "n1"
          /\ "n1" \notin HierarchyIds(RevHierarchy(i))
          /\ "n3" \in HierarchyIds(RevHierarchy(i))

(***************************************************************************)
(* /search: the location bias                                              *)
(***************************************************************************)
\* the argument handleSearch passes to applyLocationBias, and its result
BiasInput == DeduplicateResults([i \in 1..Len(srchAll) |-> GeocoderResult(srchAll[i])])
BiasOutput == ApplyLocationBias(BiasInput, srchReq.cfCountry)

NonIncreasing(results) ==
    \A i \in 1..(Len(results) - 1) : results[i].importance >= results[i + 1].importance

\* C26: with a bias country applyLocationBias returns the results it was
\* given, each result of that country with its importance raised by 0.2 and
\* the others as they were, in non-increasing order of the new importance;
\* without a bias country it returns its argument unchanged.  The response
\* lists results of that list, in non-increasing order of importance.
C26_LocationBias ==
    (SrchHandled /\ srchReq.worker = "r2" /\ srchResp.status = 200) =>
        /\ srchReq.cfCountry = NoCountry => BiasOutput = BiasInput
        /\ srchReq.cfCountry # NoCountry =>
              /\ Len(BiasOutput) = Len(BiasInput)
              /\ NonIncreasing(BiasOutput)
              /\ \A i \in 1..Len(BiasInput) :
                    \E j \in 1..Len(BiasOutput) :
                        BiasOutput[j] =
                            [BiasInput[i] EXCEPT !.importance =
                                IF BiasInput[i].country = srchReq.cfCountry
                                THEN BiasInput[i].importance + BiasBoost
                                ELSE BiasInput[i].importance]
        /\ NonIncreasing(SrchResults)
        /\ \A i \in 1..Len(SrchResults) :
              \E j \in 1..Len(BiasOutput) : SrchResults[i] = BiasOutput[j]

\* a result of the bias country has its importance raised and comes ahead of a
\* result of another country that the shards had listed first and that is
\* left as it was
C26_Witness ==
    /\ SrchHandled
    /\ srchReq.worker = "r2"
    /\ srchResp.status = 200
    /\ srchReq.cfCountry # NoCountry
    /\ \E i, j \in 1..Len(BiasInput) :
          /\ i < j
          /\ BiasInput[i].country # srchReq.cfCountry
          /\ BiasInput[j].country = srchReq.cfCountry
          /\ \E k, l \in 1..Len(SrchResults) :
                /\ k < l
                /\ SrchResults[k].gers_id = BiasInput[j].gers_id
                /\ SrchResults[k].importance = BiasInput[j].importance + BiasBoost
                /\ SrchResults[l] = BiasInput[i]

\* no bias country: the response is the argument of applyLocationBias, sorted
C26_WitnessNoBias ==
    /\ SrchHandled
    /\ srchReq.worker = "r2"
    /\ srchResp.status = 200
    /\ srchReq.cfCountry = NoCountry
    /\ Len(SrchResults) >= 3
    /\ SrchResults = BiasInput

(***************************************************************************)
(* /search: storage failures                                               *)
(***************************************************************************)
\* the D1 worker runs without its divisions database binding
IndexMissing == srchReq.worker = "d1" /\ ~srchReq.bound
\* the index was queried and returned no row
IndexMatchedNothing ==
    /\ srchLog \cap {"d1:query", "query:HEAD"} # {}
    /\ srchAll = <<>>

\* C27 as stated: a /search request whose index is missing is answered with a
\* 500/503 error, and an empty 200 list is returned only when the query
\* matched nothing or reduced to zero tokens.
C27_Original ==
    SrchHandled =>
        /\ (IndexMissing /\ ~ZeroTokens) => srchResp.status \in {500, 503}
        /\ EmptySuccess => (ZeroTokens \/ IndexMatchedNothing)

\* what holds once the index has been reached: a failing query or a failing
\* load of the HEAD shard is an error response, and an empty 200 list of a
\* query with tokens means that the index matched nothing
C27_FailuresAfterBinding ==
    (SrchHandled /\ ~IndexMissing) =>
        /\ EmptySuccess => (ZeroTokens \/ IndexMatchedNothing)
        /\ (~ZeroTokens /\ srchResp.status = 200 /\ srchReq.worker = "r2") => "query:HEAD" \in srchLog

\* the D1 worker without its database answered a query with tokens with an
\* empty 200 list, and nothing was queried
C27_MissingIndexEmptySuccess ==
    /\ SrchHandled
    /\ IndexMissing
    /\ ~ZeroTokens
    /\ EmptySuccess
    /\ srchLog = {}

(***************************************************************************)
(* STAC catalog: overlapping calls                                         *)
(***************************************************************************)
\* clearCatalogCache has not been called
NeverCleared == ~catCleared /\ \A c \in Calls : ~catCalls[c].afterClear
CatFetchers == {c \in Calls : catCalls[c].fetched}

\* C28 as stated: in every interleaving of getStacCatalog calls without a
\* clearCatalogCache at most one fetch is issued and all callers receive the
\* same catalog object.
C28_Original ==
    NeverCleared =>
        /\ Cardinality(CatFetchers) <= 1
        /\ \A c, d \in Calls :
              (CatReturned(c) /\ CatReturned(d)) => catCalls[c].value.obj = catCalls[d].value.obj

\* without any clear, two calls that both started before the first fetch
\* completed have fetched twice and hold two different catalog objects
C28_TwoFetches ==
    /\ NeverCleared
    /\ \E c, d \in Calls :
          /\ c # d
          /\ catCalls[c].fetched /\ catCalls[d].fetched
          /\ CatReturned(c) /\ CatReturned(d)
          /\ catCalls[c].value.obj # catCalls[d].value.obj

\* C29 as stated: after clearCatalogCache the cache is empty as long as no
\* call has been started since (a fetch in flight at the clear does not
\* populate it), and a call started first after a clear fetches.
C29_Original ==
    /\ catCleared => catalogCache = CatNull
    /\ \A d \in Calls : catCalls[d].afterClear => catCalls[d].fetched

\* a call in flight at the clear has cached its catalog after it, and no call
\* has been started since the clear
C29_RepopulatedAfterClear ==
    /\ catCleared
    /\ catalogCache # CatNull
    /\ \E c \in Calls : CatReturned(c) /\ catCalls[c].fetched /\ catCalls[c].value.obj = catalogCache.obj

\* the first call after a clear was answered from the cache that a call in
\* flight at the clear had filled
C29_StaleAfterClear ==
    \E d \in Calls :
        /\ catCalls[d].afterClear
        /\ ~catCalls[d].fetched
        /\ CatReturned(d)

(***************************************************************************)
(* /search: shard database handles                                         *)
(***************************************************************************)
\* C30 as stated: when the R2-shard worker has answered a /search request,
\* every shard database handle opened for it has been closed, whatever the
\* response.
C30_Original ==
    (SrchHandled /\ srchReq.worker = "r2") => srchOpen = {}

\* what holds: a request answered 200 without a failure of the country shard
\* has closed its handles, and a handle is left open only when searchShard
\* threw on it
C30_ClosedUnlessQueryThrows ==
    (SrchHandled /\ srchReq.worker = "r2") =>
        /\ "HEAD" \in srchOpen => (srchResp.status = 500 /\ "query:HEAD" \in srchLog)
        /\ "country" \in srchOpen => (srchResp.status = 200 /\ "query:country" \in srchLog)
        /\ srchOpen \subseteq {"HEAD", "country"}

\* the HEAD shard was loaded, its query threw, and the request was answered
\* 500 with the HEAD handle still open
C30_HeadHandleLeftOpen ==
    /\ SrchHandled
    /\ srchReq.worker = "r2"
    /\ srchResp.status = 500
    /\ "HEAD" \in srchOpen

\* the query of the country shard threw: the request was answered 200 from
\* the HEAD rows with the country handle still open
C30_CountryHandleLeftOpen ==
    /\ SrchHandled
    /\ srchReq.worker = "r2"
    /\ srchResp.status = 200
    /\ "country" \in srchOpen

====
